---- MODULE Spec2Model ----
(***************************************************************************)
(* A model of the gpucachesim reference simulator (playground/src/ref):    *)
(*   - the kernel/stream command loop of accelsim_bridge (bridge/main.cc), *)
(*   - the operand collector register file unit (opndcoll_rfu.hpp).        *)
(* The driver is specified by Spec, the operand collector by SpecRFU.      *)
(***************************************************************************)
EXTENDS Integers, Sequences, FiniteSets, TLC

(***************************************************************************)
(* Bounds of the model                                                     *)
(***************************************************************************)
\* longest command list explored
MaxCommands == 4
\* largest value of the option -gpgpu_max_concurrent_kernel explored
MaxConcurrentKernel == 3
\* simulated cycles explored; the cycle counter never passes it
MaxCycle == 3
\* value of gpu_deadlock_detect_cycles
DeadlockDetectCycles == 2

(***************************************************************************)
(* Generic helpers on sequences                                            *)
(***************************************************************************)
Range(s) == {s[i] : i \in 1..Len(s)}

\* std::vector::erase(begin() + (i-1))
EraseAt(s, i) == [n \in 1..(Len(s) - 1) |-> IF n < i THEN s[n] ELSE s[n + 1]]

\* all sequences over S of length at most n
SeqsUpTo(S, n) == UNION {[1..m -> S] : m \in 0..n}

\* all orders in which the members of a subset of S can be listed
Orders(S) == {q \in SeqsUpTo(S, Cardinality(S)) :
                 \A i, j \in 1..Len(q) : i # j => q[i] # q[j]}

(***************************************************************************)
(* The command list (trace_command) and the configuration                  *)
(***************************************************************************)
cpu_gpu_mem_copy == "cpu_gpu_mem_copy"
kernel_launch == "kernel_launch"
\* any command_type that is neither of the two above
gpu_cpu_mem_copy == "gpu_cpu_mem_copy"

\* the cuda stream ids that occur in the kernel traces
Streams == {1, 2}

\* a command: its m_type and, for a kernel launch, the cuda stream id that
\* the kernel trace header carries
Commands ==
  {[m_type |-> cpu_gpu_mem_copy, stream |-> 0],
   [m_type |-> gpu_cpu_mem_copy, stream |-> 0]}
  \cup {[m_type |-> kernel_launch, stream |-> s] : s \in Streams}

\* gpu_max_cycle_opt: (unsigned long long)-1 unless CYCLES is set and > 0
Unlimited == MaxCycle + 1
CycleCaps == {1, 2, Unlimited}

VARIABLES
  commandlist,         \* accelsim_bridge::commandlist
  config,              \* the options the driver reads
  command_idx,         \* accelsim_bridge::command_idx
  kernels_info,        \* accelsim_bridge::kernels_info
  busy_streams,        \* accelsim_bridge::busy_streams
  gpu,                 \* the state of m_gpgpu_sim the driver depends on
  pc,                  \* position in run_to_completion
  lk,                  \* launch_kernels: next kernel of the window to visit
  finished_kernel_uid, \* local of run_to_completion
  consumed,            \* history: indices of the commands consumed, in order
  launched,            \* history: uids handed to m_gpgpu_sim->launch, in order
  rfu,                 \* the operand collector (opndcoll_rfu_t) and its ports
  token,               \* an op token (op_t) and the arguments it is built from
  mf,                  \* a memory fetch (mem_fetch)
  mem,                 \* the fetches of a shader core on their way through the memory system
  net                  \* an anynet topology and its routing tables (AnyNet)

\* the variables of the driver
driver_vars == <<commandlist, config, command_idx, kernels_info, busy_streams,
                 gpu, pc, lk, finished_kernel_uid, consumed, launched>>

vars == <<commandlist, config, command_idx, kernels_info, busy_streams, gpu,
          pc, lk, finished_kernel_uid, consumed, launched, rfu, token, mf, mem,
          net>>

(***************************************************************************)
(* accelsim_bridge::accelsim_bridge                                        *)
(***************************************************************************)
\* window_size = concurrent_kernel_sm ? get_max_concurrent_kernel() : 1
window_size ==
  IF config.concurrent_kernel_sm THEN config.max_concurrent_kernel ELSE 1

Configs ==
  [concurrent_kernel_sm : BOOLEAN,
   max_concurrent_kernel : 1..MaxConcurrentKernel,
   gpu_max_cycle_opt : CycleCaps]

\* the simulator right after m_gpgpu_sim->init(): nothing runs
GpuInit ==
  [running |-> {}, finished |-> <<>>, cycle |-> 0, insn_stall |-> 0,
   deadlock |-> FALSE, stopped |-> FALSE, checks |-> 0, memcpys |-> 0]

\* the driver's initial state
DriverInit ==
  /\ commandlist \in SeqsUpTo(Commands, MaxCommands)
  /\ config \in Configs
  /\ command_idx = 0
  /\ kernels_info = <<>>
  /\ busy_streams = <<>>
  /\ gpu = GpuInit
  /\ pc = "loop"
  /\ lk = 0
  /\ finished_kernel_uid = 0
  /\ consumed = <<>>
  /\ launched = <<>>

\* the value of rfu while only the driver is looked at
NoRfu == [initialized |-> FALSE]

\* the value of token while no op token is looked at
NoToken == [valid |-> FALSE]

\* the value of mf while no memory fetch is looked at
NoFetch == [uid |-> 0]

\* the value of mem while the memory system is not looked at
NoMem == [cycle |-> 0]

\* the value of net while no network is looked at
NoNet == [built |-> FALSE]

Init ==
  /\ DriverInit
  /\ rfu = NoRfu
  /\ token = NoToken
  /\ mf = NoFetch
  /\ mem = NoMem
  /\ net = NoNet

(***************************************************************************)
(* The simulator as the driver sees it (trace_gpgpu_sim)                   *)
(***************************************************************************)
\* gpgpu_sim::cycle_insn_cta_max_hit
cycle_insn_cta_max_hit(g) == g.cycle >= config.gpu_max_cycle_opt

\* accelsim_bridge::limit_reached
limit_reached == cycle_insn_cta_max_hit(gpu)

\* gpgpu_sim::active: false once a cap is hit or a deadlock was seen,
\* otherwise true while some launched kernel has work left
gpu_active(g) ==
  /\ ~cycle_insn_cta_max_hit(g)
  /\ ~g.deadlock
  /\ g.running # {}

\* accelsim_bridge::active
active == gpu_active(gpu)

\* gpgpu_sim::can_start_kernel: a slot of m_running_kernels is free
can_start_kernel(g) == Cardinality(g.running) < config.max_concurrent_kernel

\* gpgpu_sim::launch
gpu_launch(g, uid) == [g EXCEPT !.running = @ \cup {uid}]

\* one simulated cycle: the cycle counter advances, the kernels listed in fin
\* complete in that order, and adv tells whether gpu_sim_insn advanced
gpu_cycle(g, fin, adv) ==
  [g EXCEPT !.cycle = @ + 1,
            !.running = @ \ Range(fin),
            !.finished = @ \o fin,
            !.insn_stall = IF adv THEN 0 ELSE @ + 1]

\* gpgpu_sim::deadlock_check: gpu_sim_insn stood still for
\* gpu_deadlock_detect_cycles cycles while kernels remain active
gpu_deadlock_check(g) ==
  [g EXCEPT !.checks = @ + 1,
            !.deadlock = (g.insn_stall >= DeadlockDetectCycles /\ g.running # {})]

\* gpgpu_sim::perf_memcpy_to_gpu: L2 residency and statistics only, no
\* simulated cycle passes
perf_memcpy_to_gpu(g) == [g EXCEPT !.memcpys = @ + 1]

\* stream_manager::stop_all_running_kernels
stop_all_running_kernels(g) == [g EXCEPT !.running = {}, !.stopped = TRUE]

\* gpgpu_sim::finished_kernel: the oldest finished uid, 0 when there is none
finished_kernel(g) == IF g.finished = <<>> THEN 0 ELSE Head(g.finished)
pop_finished_kernel(g) ==
  IF g.finished = <<>> THEN g ELSE [g EXCEPT !.finished = Tail(@)]

(***************************************************************************)
(* accelsim_bridge::process_commands                                       *)
(***************************************************************************)
commands_left == command_idx < Len(commandlist)
kernels_left == kernels_info # <<>>

\* mutant of CanConsume: the window test is off by one
CanConsume_OffByOne == Len(kernels_info) <= window_size /\ commands_left

\* the loop condition of process_commands
CanConsume == Len(kernels_info) < window_size /\ commands_left

\* the command the cursor points at (command_idx counts from 0)
NextCommand == commandlist[command_idx + 1]

\* kernel_info_t uids count up from 1 in creation order
NextKernelUid ==
  1 + Cardinality({i \in Range(consumed) : commandlist[i].m_type = kernel_launch})

\* create_kernel_info
create_kernel_info(c) ==
  [uid |-> NextKernelUid, stream |-> c.stream, was_launched |-> FALSE,
   cmd |-> command_idx + 1]

\* run_to_completion: while (commands_left() || kernels_left())
EnterLoop ==
  /\ pc = "loop"
  /\ pc' = IF commands_left \/ kernels_left THEN "process_commands" ELSE "done"
  /\ UNCHANGED <<rfu, token, mf, mem, net, commandlist, config, command_idx, kernels_info, busy_streams,
                 gpu, lk, finished_kernel_uid, consumed, launched>>

\* mutant of ConsumeMemcpy: the memcpy is also pushed into the window
ConsumeMemcpy_TakesSlot ==
  /\ pc = "process_commands"
  /\ CanConsume
  /\ NextCommand.m_type = cpu_gpu_mem_copy
  /\ gpu' = perf_memcpy_to_gpu(gpu)
  /\ kernels_info' = Append(kernels_info, create_kernel_info(NextCommand))
  /\ consumed' = Append(consumed, command_idx + 1)
  /\ command_idx' = command_idx + 1
  /\ UNCHANGED <<rfu, token, mf, mem, net, commandlist, config, busy_streams, pc, lk,
                 finished_kernel_uid, launched>>

\* one iteration of the loop on a cpu_gpu_mem_copy command
ConsumeMemcpy ==
  /\ pc = "process_commands"
  /\ CanConsume
  /\ NextCommand.m_type = cpu_gpu_mem_copy
  /\ gpu' = perf_memcpy_to_gpu(gpu)
  /\ consumed' = Append(consumed, command_idx + 1)
  /\ command_idx' = command_idx + 1
  /\ UNCHANGED <<rfu, token, mf, mem, net, commandlist, config, kernels_info, busy_streams, pc, lk,
                 finished_kernel_uid, launched>>

\* mutant of ConsumeKernelLaunch: command_idx++ is forgotten
ConsumeKernelLaunch_NoAdvance ==
  /\ pc = "process_commands"
  /\ CanConsume
  /\ NextCommand.m_type = kernel_launch
  /\ kernels_info' = Append(kernels_info, create_kernel_info(NextCommand))
  /\ consumed' = Append(consumed, command_idx + 1)
  /\ UNCHANGED <<rfu, token, mf, mem, net, commandlist, config, command_idx, busy_streams, gpu, pc, lk,
                 finished_kernel_uid, launched>>

\* one iteration of the loop on a kernel_launch command
ConsumeKernelLaunch ==
  /\ pc = "process_commands"
  /\ CanConsume
  /\ NextCommand.m_type = kernel_launch
  /\ kernels_info' = Append(kernels_info, create_kernel_info(NextCommand))
  /\ consumed' = Append(consumed, command_idx + 1)
  /\ command_idx' = command_idx + 1
  /\ UNCHANGED <<rfu, token, mf, mem, net, commandlist, config, busy_streams, gpu, pc, lk,
                 finished_kernel_uid, launched>>

\* mutant of UndefinedCommand: the unknown command is skipped
UndefinedCommand_Skip ==
  /\ pc = "process_commands"
  /\ CanConsume
  /\ NextCommand.m_type \notin {cpu_gpu_mem_copy, kernel_launch}
  /\ consumed' = Append(consumed, command_idx + 1)
  /\ command_idx' = command_idx + 1
  /\ UNCHANGED <<rfu, token, mf, mem, net, commandlist, config, kernels_info, busy_streams, gpu, pc, lk,
                 finished_kernel_uid, launched>>

\* one iteration of the loop on any other command: throw "undefined command"
UndefinedCommand ==
  /\ pc = "process_commands"
  /\ CanConsume
  /\ NextCommand.m_type \notin {cpu_gpu_mem_copy, kernel_launch}
  /\ pc' = "undefined_command"
  /\ UNCHANGED <<rfu, token, mf, mem, net, commandlist, config, command_idx, kernels_info, busy_streams,
                 gpu, lk, finished_kernel_uid, consumed, launched>>

\* the loop condition fails: process_commands returns, launch_kernels starts
ProcessCommandsReturn ==
  /\ pc = "process_commands"
  /\ ~CanConsume
  /\ pc' = "launch_kernels"
  /\ lk' = 1
  /\ UNCHANGED <<rfu, token, mf, mem, net, commandlist, config, command_idx, kernels_info, busy_streams,
                 gpu, finished_kernel_uid, consumed, launched>>

(***************************************************************************)
(* accelsim_bridge::launch_kernels                                         *)
(***************************************************************************)
\* for (auto s : busy_streams) if (s == k->get_cuda_stream_id()) ...
stream_busy(k) == k.stream \in Range(busy_streams)

\* if (!stream_busy && can_start_kernel() && !k->was_launched())
MayLaunch(k) == ~stream_busy(k) /\ can_start_kernel(gpu) /\ ~k.was_launched

\* one iteration of the loop over the window
LaunchVisit ==
  /\ pc = "launch_kernels"
  /\ lk <= Len(kernels_info)
  /\ LET k == kernels_info[lk] IN
       IF MayLaunch(k)
       THEN /\ gpu' = gpu_launch(gpu, k.uid)
            /\ kernels_info' = [kernels_info EXCEPT ![lk].was_launched = TRUE]
            /\ busy_streams' = Append(busy_streams, k.stream)
            /\ launched' = Append(launched, k.uid)
       ELSE UNCHANGED <<gpu, kernels_info, busy_streams, launched>>
  /\ lk' = lk + 1
  /\ UNCHANGED <<rfu, token, mf, mem, net, commandlist, config, command_idx, pc, finished_kernel_uid,
                 consumed>>

\* the window is exhausted: launch_kernels returns, the cycle loop starts
LaunchKernelsReturn ==
  /\ pc = "launch_kernels"
  /\ lk > Len(kernels_info)
  /\ pc' = "cycle_loop"
  /\ lk' = 0
  /\ finished_kernel_uid' = 0
  /\ UNCHANGED <<rfu, token, mf, mem, net, commandlist, config, command_idx, kernels_info, busy_streams,
                 gpu, consumed, launched>>

(***************************************************************************)
(* accelsim_bridge::cycle and the do-while loop of run_to_completion       *)
(***************************************************************************)
\* mutant of cycle: the deadlock watchdog is not called
cycle_NoWatchdog(g, fin, adv) ==
  IF gpu_active(g)
  THEN gpu_cycle(g, fin, adv)
  ELSE IF cycle_insn_cta_max_hit(g)
       THEN stop_all_running_kernels(g)
       ELSE g

\* accelsim_bridge::cycle on simulator state g; fin and adv are what the
\* simulated cycle turns out to do
cycle(g, fin, adv) ==
  IF gpu_active(g)
  THEN gpu_deadlock_check(gpu_cycle(g, fin, adv))
  ELSE IF cycle_insn_cta_max_hit(g)
       THEN stop_all_running_kernels(g)
       ELSE g

\* if (!active()) break;
CycleLoopBreak ==
  /\ pc = "cycle_loop"
  /\ ~active
  /\ pc' = "cleanup"
  /\ UNCHANGED <<rfu, token, mf, mem, net, commandlist, config, command_idx, kernels_info, busy_streams,
                 gpu, lk, finished_kernel_uid, consumed, launched>>

\* cycle(); finished_kernel_uid = get_finished_kernel_uid(); if (uid) break;
Tick ==
  /\ pc = "cycle_loop"
  /\ active
  /\ gpu.cycle < MaxCycle
  /\ \E fin \in Orders(gpu.running), adv \in BOOLEAN :
       /\ fin # <<>> => adv
       /\ LET g1 == cycle(gpu, fin, adv) IN
            IF g1.deadlock
            THEN /\ gpu' = g1
                 /\ pc' = "deadlock"
                 /\ UNCHANGED finished_kernel_uid
            ELSE /\ finished_kernel_uid' = finished_kernel(g1)
                 /\ gpu' = pop_finished_kernel(g1)
                 /\ pc' = IF finished_kernel(g1) # 0 THEN "cleanup" ELSE "cycle_loop"
  /\ UNCHANGED <<rfu, token, mf, mem, net, commandlist, config, command_idx, kernels_info, busy_streams,
                 lk, consumed, launched>>

(***************************************************************************)
(* accelsim_bridge::cleanup_finished_kernel                                *)
(***************************************************************************)
\* busy_streams.erase of the first entry equal to s, if any
EraseStream(busy, s) ==
  IF s \in Range(busy)
  THEN EraseAt(busy, CHOOSE l \in 1..Len(busy) :
                       busy[l] = s /\ \A m \in 1..(l - 1) : busy[m] # s)
  ELSE busy

\* the for loop over the window from position j on; all is
\* cycle_insn_cta_max_hit() || !active(), k_seen whether k was assigned
RECURSIVE CleanupLoop(_, _, _, _, _, _)
CleanupLoop(win, busy, j, uid, all, k_seen) ==
  IF j > Len(win)
  THEN [kernels_info |-> win, busy_streams |-> busy, k_seen |-> k_seen]
  ELSE LET k == win[j] IN
       IF k.uid = uid \/ all
       THEN IF ~all
            THEN [kernels_info |-> EraseAt(win, j),
                  busy_streams |-> EraseStream(busy, k.stream), k_seen |-> TRUE]
            ELSE CleanupLoop(EraseAt(win, j), EraseStream(busy, k.stream),
                             j + 1, uid, all, TRUE)
       ELSE CleanupLoop(win, busy, j + 1, uid, all, TRUE)

\* the result of cleanup_finished_kernel(uid) on the current state
cleanup_finished_kernel(uid) ==
  IF uid # 0 \/ limit_reached \/ ~active
  THEN CleanupLoop(kernels_info, busy_streams, 1, uid,
                   limit_reached \/ ~active, FALSE)
  ELSE [kernels_info |-> kernels_info, busy_streams |-> busy_streams,
        k_seen |-> TRUE]

\* cleanup_finished_kernel(finished_kernel_uid); assert(k) aborts the run
Cleanup ==
  /\ pc = "cleanup"
  /\ LET r == cleanup_finished_kernel(finished_kernel_uid) IN
       /\ kernels_info' = r.kernels_info
       /\ busy_streams' = r.busy_streams
       /\ pc' = IF r.k_seen THEN "limit_check" ELSE "assert_failed"
  /\ UNCHANGED <<rfu, token, mf, mem, net, commandlist, config, command_idx, gpu, lk, finished_kernel_uid,
                 consumed, launched>>

\* mutant of LimitCheck: the break on the cap is missing
LimitCheck_NoBreak ==
  /\ pc = "limit_check"
  /\ pc' = "loop"
  /\ UNCHANGED <<rfu, token, mf, mem, net, commandlist, config, command_idx, kernels_info, busy_streams,
                 gpu, lk, finished_kernel_uid, consumed, launched>>

\* if (m_gpgpu_sim->cycle_insn_cta_max_hit()) break;
LimitCheck ==
  /\ pc = "limit_check"
  /\ pc' = IF limit_reached THEN "done" ELSE "loop"
  /\ UNCHANGED <<rfu, token, mf, mem, net, commandlist, config, command_idx, kernels_info, busy_streams,
                 gpu, lk, finished_kernel_uid, consumed, launched>>

Next ==
  \/ EnterLoop
  \/ ConsumeMemcpy
  \/ ConsumeKernelLaunch
  \/ UndefinedCommand
  \/ ProcessCommandsReturn
  \/ LaunchVisit
  \/ LaunchKernelsReturn
  \/ CycleLoopBreak
  \/ Tick
  \/ Cleanup
  \/ LimitCheck

Spec == Init /\ [][Next]_vars

(***************************************************************************)
(* Properties of the driver                                                *)
(***************************************************************************)
\* the window size as section 4.1 states it
ClaimW == IF config.concurrent_kernel_sm THEN config.max_concurrent_kernel ELSE 1

\* the uids of the kernels of a window
Uids(win) == {win[i].uid : i \in 1..Len(win)}

\* the number of cpu_gpu_mem_copy commands among the first n commands
MemcpysUpTo(n) ==
  Cardinality({i \in 1..n : commandlist[i].m_type = cpu_gpu_mem_copy})

\* C1: the window never holds more than W kernels, W being 1 unless
\* concurrent-kernel-per-SM is enabled and max_concurrent_kernel (> 0)
\* otherwise; when process_commands has returned the window is full or the
\* command list is exhausted.
C1_WindowBounded ==
  /\ ClaimW > 0
  /\ Len(kernels_info) <= ClaimW
  /\ pc = "launch_kernels" =>
       (Len(kernels_info) = ClaimW \/ command_idx = Len(commandlist))

C1_Witness ==
  /\ pc = "launch_kernels"
  /\ lk = 1
  /\ ClaimW >= 2
  /\ Len(kernels_info) = ClaimW
  /\ command_idx < Len(commandlist)

\* C2: commands are consumed strictly in list order: command_idx never
\* decreases, grows by one per consumed command, never passes the end of
\* the list, no command is skipped or taken twice, and the kernels of the
\* window stand in the order of their kernel_launch commands.
C2_ConsumedInOrder ==
  /\ [](/\ command_idx <= Len(commandlist)
        /\ consumed = [i \in 1..command_idx |-> i]
        /\ \A i \in 1..Len(kernels_info) :
             /\ kernels_info[i].cmd \in 1..command_idx
             /\ commandlist[kernels_info[i].cmd].m_type = kernel_launch
             /\ kernels_info[i].stream = commandlist[kernels_info[i].cmd].stream
        /\ \A i, j \in 1..Len(kernels_info) :
             i < j => kernels_info[i].cmd < kernels_info[j].cmd)
  /\ [][/\ command_idx' \in {command_idx, command_idx + 1}
        /\ (command_idx' = command_idx + 1) <=>
             (consumed' = Append(consumed, command_idx + 1))
        /\ (command_idx' = command_idx) <=> (consumed' = consumed)
        /\ Len(kernels_info') > Len(kernels_info) =>
             /\ command_idx' = command_idx + 1
             /\ \E k \in Uids(kernels_info') \ Uids(kernels_info) :
                  kernels_info' = Append(kernels_info,
                                         kernels_info'[Len(kernels_info')])
                  /\ kernels_info'[Len(kernels_info')].uid = k
                  /\ kernels_info'[Len(kernels_info')].cmd = command_idx + 1]_vars

C2_Witness ==
  /\ command_idx >= 3
  /\ Len(kernels_info) >= 2
  /\ MemcpysUpTo(command_idx) >= 1

\* the part of C3 about one visit of launch_kernels: the visited kernel is
\* launched exactly when its stream is not busy, it was not launched and the
\* simulator can start a kernel; the launch sets was_launched and inserts
\* the stream id into busy_streams.
C3_LaunchCondition ==
  [][(pc = "launch_kernels" /\ lk <= Len(kernels_info)) =>
       LET k == kernels_info[lk]
           go == /\ k.stream \notin Range(busy_streams)
                 /\ ~k.was_launched
                 /\ Cardinality(gpu.running) < config.max_concurrent_kernel
       IN IF go
          THEN /\ launched' = Append(launched, k.uid)
               /\ kernels_info' = [kernels_info EXCEPT ![lk].was_launched = TRUE]
               /\ busy_streams' = Append(busy_streams, k.stream)
               /\ gpu'.running = gpu.running \cup {k.uid}
          ELSE UNCHANGED <<launched, kernels_info, busy_streams, gpu>>]_vars

\* two kernels of the window that share a stream are never both launched
StreamExclusive ==
  \A i, j \in 1..Len(kernels_info) :
    (i # j /\ kernels_info[i].stream = kernels_info[j].stream)
      => ~(kernels_info[i].was_launched /\ kernels_info[j].was_launched)

\* C3: launch_kernels launches a kernel of the window exactly when, at its
\* visit, its stream is not busy, it was not launched and can_start_kernel
\* holds; the launch sets was_launched and makes the stream busy, so that
\* two kernels of the window that share a stream are never both launched.
C3_LaunchRule ==
  /\ C3_LaunchCondition
  /\ [][launched' # launched => pc = "launch_kernels"]_vars
  /\ []StreamExclusive

\* C4: cleanup_finished_kernel(uid) removes the kernel with the finished
\* uid from the window and its stream from busy_streams, and removes no
\* other kernel and no other stream id.
C4_RetireOnlyFinished ==
  [][(pc = "cleanup" /\ finished_kernel_uid \in Uids(kernels_info)) =>
       LET i == CHOOSE n \in 1..Len(kernels_info) :
                  kernels_info[n].uid = finished_kernel_uid
           k == kernels_info[i]
       IN /\ kernels_info' = EraseAt(kernels_info, i)
          /\ k.stream \notin Range(busy_streams')
          /\ Range(busy_streams') = Range(busy_streams) \ {k.stream}]_vars

\* C5: run_to_completion returns exactly when the window is empty and the
\* command list exhausted, or when the cap is hit: a return without the cap
\* leaves no command and no kernel; once the cap is hit no command is
\* consumed and no kernel launched any more, and the run ends as a normal
\* return even if commands or kernels remain.
C5_Termination ==
  /\ []((pc = "done" /\ ~limit_reached) =>
          (command_idx = Len(commandlist) /\ kernels_info = <<>>))
  /\ [](limit_reached =>
          pc \in {"cycle_loop", "cleanup", "limit_check", "done", "deadlock"})
  /\ [][/\ (pc' = "done") <=>
             \/ (pc = "loop" /\ command_idx = Len(commandlist)
                             /\ kernels_info = <<>>)
             \/ (pc = "limit_check" /\ limit_reached)
        /\ limit_reached =>
             /\ command_idx' = command_idx
             /\ consumed' = consumed
             /\ launched' = launched
             /\ gpu'.running = gpu.running
             /\ pc' \notin {"process_commands", "launch_kernels", "loop"}]_vars
  /\ [][pc # "done"]_vars

C5_Witness ==
  /\ pc = "done"
  /\ limit_reached
  /\ command_idx < Len(commandlist)
  /\ kernels_info # <<>>

\* C6: a command that is neither cpu_gpu_mem_copy nor kernel_launch is
\* fatal: reaching it with the window not full raises "undefined command",
\* command_idx stays at it, no kernel is added or launched, and what the
\* commands before it did is kept.
C6_UndefinedCommand ==
  /\ [](pc = "undefined_command" =>
          /\ command_idx < Len(commandlist)
          /\ commandlist[command_idx + 1].m_type
               \notin {cpu_gpu_mem_copy, kernel_launch}
          /\ Len(kernels_info) < ClaimW
          /\ consumed = [i \in 1..command_idx |-> i]
          /\ gpu.memcpys = MemcpysUpTo(command_idx))
  /\ [][/\ (/\ pc = "process_commands"
            /\ Len(kernels_info) < ClaimW
            /\ command_idx < Len(commandlist)
            /\ commandlist[command_idx + 1].m_type
                 \notin {cpu_gpu_mem_copy, kernel_launch})
           => (pc' = "undefined_command" /\
               UNCHANGED <<command_idx, kernels_info, busy_streams, gpu,
                           consumed, launched>>)
        /\ pc # "undefined_command"]_vars

C6_Witness ==
  /\ pc = "undefined_command"
  /\ kernels_info # <<>>
  /\ gpu.memcpys >= 1
  /\ command_idx >= 2

\* C7: in every driver tick an active simulator makes exactly one cycle
\* step followed by one deadlock check, an inactive one is never stepped,
\* and a run of run_to_completion that hits the cap invokes
\* stop_all_running_kernels.
C7_TickAndStop ==
  /\ [][gpu'.cycle # gpu.cycle =>
          /\ active
          /\ gpu'.cycle = gpu.cycle + 1
          /\ gpu'.checks = gpu.checks + 1]_vars
  /\ [](gpu.checks = gpu.cycle)
  /\ []((pc = "done" /\ limit_reached) => gpu.stopped)

\* C8: the watchdog fires exactly when gpu_sim_insn stood still for
\* gpu_deadlock_detect_cycles consecutive cycles while kernels are active;
\* the run then aborts.
C8_Watchdog ==
  /\ []((pc = "deadlock") <=> gpu.deadlock)
  /\ [](gpu.deadlock <=>
          (gpu.insn_stall >= DeadlockDetectCycles /\ gpu.running # {}))
  /\ [](gpu.insn_stall <= DeadlockDetectCycles)
  /\ [][pc # "deadlock"]_vars

C8_Witness ==
  /\ pc = "deadlock"
  /\ gpu.insn_stall = DeadlockDetectCycles
  /\ gpu.running # {}

\* C9: consuming a cpu_gpu_mem_copy command calls perf_memcpy_to_gpu once,
\* advances command_idx by one and changes neither the window nor
\* busy_streams nor a launched flag nor the cycle counter; a memcpy never
\* takes a window slot.
C9_MemcpyFrame ==
  /\ [][/\ (/\ pc = "process_commands"
            /\ Len(kernels_info) < ClaimW
            /\ command_idx < Len(commandlist)
            /\ commandlist[command_idx + 1].m_type = cpu_gpu_mem_copy)
           => /\ gpu'.memcpys = gpu.memcpys + 1
              /\ command_idx' = command_idx + 1
              /\ gpu'.cycle = gpu.cycle
              /\ gpu'.running = gpu.running
              /\ UNCHANGED <<kernels_info, busy_streams, launched>>
        /\ gpu'.memcpys # gpu.memcpys =>
             commandlist[command_idx + 1].m_type = cpu_gpu_mem_copy]_vars
  /\ [](\A i \in 1..Len(kernels_info) :
          commandlist[kernels_info[i].cmd].m_type # cpu_gpu_mem_copy)
  /\ [](gpu.memcpys = MemcpysUpTo(command_idx))

C9_Witness ==
  /\ gpu.memcpys >= 1
  /\ \E i \in 1..Len(kernels_info) :
       /\ kernels_info[i].was_launched
       /\ \E c \in Range(consumed) :
            c > kernels_info[i].cmd /\ commandlist[c].m_type = cpu_gpu_mem_copy

(***************************************************************************)
(* The operand collector register file unit (opndcoll_rfu_t)               *)
(***************************************************************************)
\* warp instructions issued to the collector over a run
MaxInsts == 3

\* the operand positions of an instruction that the model looks at
\* (0..MAX_REG_OPERANDS-1 in the code)
Operands == {0, 1}

\* the configurations explored: banks, warp shift, sub-core model,
\* schedulers, collector units of the one collector set, input ports
RfuConfigs ==
  {[num_banks |-> 2, bank_warp_shift |-> 0, sub_core_model |-> FALSE,
    num_warp_scheds |-> 1, num_cu |-> 2, num_ports |-> 2],
   [num_banks |-> 4, bank_warp_shift |-> 0, sub_core_model |-> TRUE,
    num_warp_scheds |-> 2, num_cu |-> 2, num_ports |-> 1]}

\* the warp instructions the schedulers issue: warp id, source and
\* destination registers (-1: no register)
Insts ==
  {[wid |-> 0, src |-> <<0, 1>>, dst |-> <<0, 1>>],
   [wid |-> 1, src |-> <<1, 1>>, dst |-> <<-1, -1>>],
   [wid |-> 1, src |-> <<-1, -1>>, dst |-> <<0, -1>>]}

\* an empty pipeline register slot / a collector unit without instruction
NoInst == [id |-> 0, wid |-> 0, src |-> <<-1, -1>>, dst |-> <<-1, -1>>,
           sched |-> 0]

\* op_t(): an invalid op token
NoOp == [valid |-> FALSE, cu |-> 0, operand |-> 0, reg |-> 0, bank |-> 0,
         sched |-> 0]

NO_ALLOC == "NO_ALLOC"
READ_ALLOC == "READ_ALLOC"
WRITE_ALLOC == "WRITE_ALLOC"

\* register_bank(regnum, wid, num_banks, bank_warp_shift, sub_core_model,
\* banks_per_sched, sched_id)
register_bank(regnum, wid, num_banks, bank_warp_shift, sub_core_model, banks_per_sched, sched_id) ==
  LET bank == regnum + (wid \div (2 ^ bank_warp_shift)) IN
    IF sub_core_model
    THEN (bank % banks_per_sched) + sched_id * banks_per_sched
    ELSE bank % num_banks

\* mutant of op_t: the scheduler id is not handed on to register_bank
op_t_NoSched(cu, wid, operand, reg, num_banks, bank_warp_shift, sub_core_model, banks_per_sched, sched_id) ==
  [valid |-> TRUE, cu |-> cu, operand |-> operand, reg |-> reg,
   bank |-> register_bank(reg, wid, num_banks, bank_warp_shift,
                          sub_core_model, banks_per_sched, 0),
   sched |-> sched_id]

\* op_t::op_t(cu, op, reg, num_banks, bank_warp_shift, sub_core_model,
\* banks_per_sched, sched_id); wid is cu->get_warp_id()
op_t(cu, wid, operand, reg, num_banks, bank_warp_shift, sub_core_model, banks_per_sched, sched_id) ==
  [valid |-> TRUE, cu |-> cu, operand |-> operand, reg |-> reg,
   bank |-> register_bank(reg, wid, num_banks, bank_warp_shift,
                          sub_core_model, banks_per_sched, sched_id),
   sched |-> sched_id]

\* m_num_banks_per_sched
banks_per_sched(cfg) == cfg.num_banks \div cfg.num_warp_scheds

\* slots of a pipeline register set: one per scheduler in the sub-core model
Slots(cfg) == IF cfg.sub_core_model THEN 0..(cfg.num_warp_scheds - 1) ELSE {0}

\* collector_unit_t::init: the sub-core register id of unit c
cu_reg_id(cfg, c) ==
  IF cfg.sub_core_model THEN c \div (cfg.num_cu \div cfg.num_warp_scheds) ELSE 0

\* mutant of FreeCu: the constructor leaves m_free false
FreeCu_NotFree(cfg, c) ==
  [free |-> FALSE, warp |-> NoInst, not_ready |-> {},
   src_op |-> [o \in Operands |-> NoOp], out |-> -1, reg_id |-> cu_reg_id(cfg, c)]

\* collector_unit_t::collector_unit_t
FreeCu(cfg, c) ==
  [free |-> TRUE, warp |-> NoInst, not_ready |-> {},
   src_op |-> [o \in Operands |-> NoOp], out |-> -1, reg_id |-> cu_reg_id(cfg, c)]

\* opndcoll_rfu_t::init, arbiter_t::init and the empty pipeline registers
RfuInit(cfg) ==
  [initialized |-> TRUE,
   cfg |-> cfg,
   cu |-> [c \in 0..(cfg.num_cu - 1) |-> FreeCu(cfg, c)],
   queue |-> [b \in 0..(cfg.num_banks - 1) |-> <<>>],
   alloc |-> [b \in 0..(cfg.num_banks - 1) |-> NO_ALLOC],
   arb_last_cu |-> 0,
   du_last_cu |-> 0,
   in_reg |-> [p \in 0..(cfg.num_ports - 1) |-> [sl \in Slots(cfg) |-> NoInst]],
   out_reg |-> [p \in 0..(cfg.num_ports - 1) |-> [sl \in Slots(cfg) |-> NoInst]],
   exec |-> {},
   issued |-> 0,
   assert_failed |-> FALSE,
   phases |-> <<>>]

(***************************************************************************)
(* register_set                                                            *)
(***************************************************************************)
\* register_set::has_ready
has_ready(regs) == \E sl \in DOMAIN regs : regs[sl] # NoInst

\* register_set::get_ready: the slot of the oldest instruction
get_ready(regs) ==
  CHOOSE sl \in DOMAIN regs :
    /\ regs[sl] # NoInst
    /\ \A t \in DOMAIN regs : regs[t] # NoInst => regs[sl].id <= regs[t].id

\* register_set::has_free(sub_core_model, reg_id)
has_free(regs, sub_core_model, reg_id) ==
  IF sub_core_model
  THEN regs[reg_id] = NoInst
  ELSE \E sl \in DOMAIN regs : regs[sl] = NoInst

\* register_set::get_free(sub_core_model, reg_id)
get_free(regs, sub_core_model, reg_id) ==
  IF sub_core_model
  THEN reg_id
  ELSE CHOOSE sl \in DOMAIN regs :
         regs[sl] = NoInst /\ \A t \in DOMAIN regs : regs[t] = NoInst => sl <= t

(***************************************************************************)
(* dispatch_unit_t and collector_unit_t                                    *)
(***************************************************************************)
Min(S) == CHOOSE x \in S : \A y \in S : x <= y

\* an entry of the log of the phases of the last step(): the phase, the
\* input port it was called for, the collector unit it dispatched or
\* allocated (-1: none), the banks it granted to reads or reset; the log is
\* empty when the last action was not a step()
phase(name, p, c, b) == [phase |-> name, port |-> p, cu |-> c, banks |-> b]

\* collector_unit_t::ready
cu_ready(r, c) ==
  /\ ~r.cu[c].free
  /\ r.cu[c].not_ready = {}
  /\ has_free(r.out_reg[r.cu[c].out], r.cfg.sub_core_model, r.cu[c].reg_id)

\* mutant of rr_increment: the round robin always goes on from the unit after
\* the last one
rr_increment_One(r) == 1

\* mutant of rr_increment: a whole group is skipped from the last unit,
\* whatever its place in its group
rr_increment_Full(r) ==
  IF r.cfg.sub_core_model THEN r.cfg.num_cu \div r.cfg.num_warp_scheds ELSE 1

\* mutant of rr_increment: in the sub-core model the scan starts at the first
\* unit of the group of the unit that dispatched last
rr_increment_OwnGroup(r) ==
  LET cusPerSched == r.cfg.num_cu \div r.cfg.num_warp_scheds IN
    IF r.cfg.sub_core_model
    THEN r.cfg.num_cu - (r.du_last_cu % cusPerSched)
    ELSE 1

\* dispatch_unit_t::find_ready: rr_increment
rr_increment(r) ==
  LET cusPerSched == r.cfg.num_cu \div r.cfg.num_warp_scheds IN
    IF r.cfg.sub_core_model
    THEN cusPerSched - (r.du_last_cu % cusPerSched)
    ELSE 1

\* dispatch_unit_t::find_ready: the unit looked at in iteration n
scan_cu(r, n) == (r.du_last_cu + n + rr_increment(r)) % r.cfg.num_cu

\* dispatch_unit_t::find_ready: the unit returned, -1 for NULL
find_ready(r) ==
  LET hits == {n \in 0..(r.cfg.num_cu - 1) : cu_ready(r, scan_cu(r, n))} IN
    IF hits = {} THEN -1 ELSE scan_cu(r, Min(hits))

\* mutant of cu_dispatch: the unit keeps its instruction and stays allocated
cu_dispatch_KeepWarp(r, c) ==
  LET p == r.cu[c].out
      sl == get_free(r.out_reg[p], r.cfg.sub_core_model, r.cu[c].reg_id)
  IN [r EXCEPT !.out_reg[p][sl] = r.cu[c].warp]

\* collector_unit_t::dispatch
cu_dispatch(r, c) ==
  LET p == r.cu[c].out
      sl == get_free(r.out_reg[p], r.cfg.sub_core_model, r.cu[c].reg_id)
  IN [r EXCEPT !.out_reg[p][sl] = r.cu[c].warp,
               !.cu[c].free = TRUE,
               !.cu[c].warp = NoInst,
               !.cu[c].out = -1,
               !.cu[c].src_op = [o \in Operands |-> NoOp],
               !.cu[c].not_ready = {},
               !.assert_failed = @ \/ r.cu[c].not_ready # {}]

\* opndcoll_rfu_t::dispatch_ready_cu (one dispatch unit)
dispatch_ready_cu(r) ==
  LET c == find_ready(r)
      r1 == [r EXCEPT !.phases = Append(@, phase("dispatch_ready_cu", -1, c, {}))]
  IN IF c = -1 THEN r1 ELSE cu_dispatch([r1 EXCEPT !.du_last_cu = c], c)

(***************************************************************************)
(* arbiter_t                                                               *)
(***************************************************************************)
\* mutant of bank_idle: a busy bank is reported idle
bank_idle_Always(r, bank) == TRUE

\* arbiter_t::bank_idle
bank_idle(r, bank) == r.alloc[bank] = NO_ALLOC

\* arbiter_t::allocate_bank_for_write, allocation_t::alloc_write
allocate_bank_for_write(r, bank) ==
  [r EXCEPT !.alloc[bank] = WRITE_ALLOC,
            !.assert_failed = @ \/ r.alloc[bank] # NO_ALLOC]

\* arbiter_t::allocate_for_read, allocation_t::alloc_read
allocate_for_read(r, bank) ==
  [r EXCEPT !.alloc[bank] = READ_ALLOC,
            !.assert_failed = @ \/ r.alloc[bank] # NO_ALLOC]

\* mutant of reset_alloction: the write allocations survive the reset
reset_alloction_KeepWrites(r) ==
  [r EXCEPT !.alloc = [b \in DOMAIN r.alloc |->
                         IF r.alloc[b] = WRITE_ALLOC THEN WRITE_ALLOC ELSE NO_ALLOC]]

\* arbiter_t::reset_alloction
reset_alloction(r) == [r EXCEPT !.alloc = [b \in DOMAIN r.alloc |-> NO_ALLOC]]

\* _request[bank][cu]: the head of the bank's queue belongs to unit c
request(r, bank, c) == r.queue[bank] # <<>> /\ Head(r.queue[bank]).cu = c

\* mutant of wavefront: a collector unit that is already matched is matched
\* again
RECURSIVE wavefront_NoOutmatch(_, _, _, _)
wavefront_NoOutmatch(r, t, inmatch, outmatch) ==
  LET inputs == r.cfg.num_banks
      outputs == r.cfg.num_cu
      square == IF inputs > outputs THEN inputs ELSE outputs
  IN IF t >= square * inputs
     THEN inmatch
     ELSE LET input == t % inputs
              output == (r.arb_last_cu + (t \div inputs) + input) % outputs
          IN IF inmatch[input] = -1 /\ request(r, input, output)
             THEN wavefront_NoOutmatch(r, t + 1, [inmatch EXCEPT ![input] = output], outmatch)
             ELSE wavefront_NoOutmatch(r, t + 1, inmatch, outmatch)

\* arbiter_t::allocate_reads: the wavefront over the request matrix, step t
\* of the double loop; returns _inmatch
RECURSIVE wavefront(_, _, _, _)
wavefront(r, t, inmatch, outmatch) ==
  LET inputs == r.cfg.num_banks
      outputs == r.cfg.num_cu
      square == IF inputs > outputs THEN inputs ELSE outputs
  IN IF t >= square * inputs
     THEN inmatch
     ELSE LET input == t % inputs
              output == (r.arb_last_cu + (t \div inputs) + input) % outputs
          IN IF /\ inmatch[input] = -1
                /\ outmatch[output] = -1
                /\ request(r, input, output)
             THEN wavefront(r, t + 1, [inmatch EXCEPT ![input] = output],
                            [outmatch EXCEPT ![output] = input])
             ELSE wavefront(r, t + 1, inmatch, outmatch)

\* mutant of granted_banks: a write-allocated bank is matched like a free one
granted_banks_NoWritePriority(r) ==
  LET inmatch == wavefront(r, 0, [b \in DOMAIN r.alloc |-> -1],
                           [c \in DOMAIN r.cu |-> -1])
  IN {b \in DOMAIN r.alloc : inmatch[b] # -1}

\* arbiter_t::allocate_reads: the banks whose head request is granted
granted_banks(r) ==
  LET inmatch0 == [b \in DOMAIN r.alloc |->
                     IF r.alloc[b] = WRITE_ALLOC THEN 0 ELSE -1]
      outmatch0 == [c \in DOMAIN r.cu |-> -1]
      inmatch == wavefront(r, 0, inmatch0, outmatch0)
  IN {b \in DOMAIN r.alloc : inmatch[b] # -1 /\ r.alloc[b] # WRITE_ALLOC}

\* mutant of collect_operand: reset() without the operand clears the mask
collect_operand_ResetAll(r, c, op) == [r EXCEPT !.cu[c].not_ready = {}]

\* collector_unit_t::collect_operand
collect_operand(r, c, op) == [r EXCEPT !.cu[c].not_ready = @ \ {op}]

\* opndcoll_rfu_t::allocate_reads for the granted banks from b on
RECURSIVE grant_reads(_, _, _)
grant_reads(r, g, b) ==
  IF b >= r.cfg.num_banks
  THEN r
  ELSE IF b \in g
       THEN LET op == Head(r.queue[b])
                r1 == [r EXCEPT !.queue[b] = Tail(@)]
            IN grant_reads(collect_operand(allocate_for_read(r1, b),
                                           op.cu, op.operand), g, b + 1)
       ELSE grant_reads(r, g, b + 1)

\* opndcoll_rfu_t::allocate_reads
allocate_reads(r) ==
  LET r1 == [r EXCEPT !.phases = Append(@, phase("allocate_reads", -1, -1,
                                                 granted_banks(r))),
                      !.arb_last_cu = (@ + 1) % r.cfg.num_cu]
  IN grant_reads(r1, granted_banks(r), 0)

(***************************************************************************)
(* allocate_cu                                                             *)
(***************************************************************************)
\* m_src_op[o] of unit c as allocate sets it for the instruction: op_t(cu,
\* op, reg, ...) for a source register not seen before, op_t() otherwise
src_op_of(r, c, inst, o) ==
  LET reg == inst.src[o + 1] IN
    IF reg >= 0 /\ \A o2 \in Operands : o2 < o => inst.src[o2 + 1] # reg
    THEN op_t(c, inst.wid, o, reg, r.cfg.num_banks, r.cfg.bank_warp_shift,
              r.cfg.sub_core_model, banks_per_sched(r.cfg), inst.sched)
    ELSE NoOp

\* mutant of cu_allocate: the instruction stays in the input register
cu_allocate_KeepSlot(r, c, p) ==
  LET inst == r.in_reg[p][get_ready(r.in_reg[p])]
      ops == [o \in Operands |-> src_op_of(r, c, inst, o)]
  IN [r EXCEPT !.cu[c].free = FALSE,
               !.cu[c].out = p,
               !.cu[c].warp = inst,
               !.cu[c].src_op = ops,
               !.cu[c].not_ready = {o \in Operands : ops[o].valid}]

\* collector_unit_t::allocate(pipeline_reg, output_reg) for unit c, port p
cu_allocate(r, c, p) ==
  LET sl == get_ready(r.in_reg[p])
      inst == r.in_reg[p][sl]
      ops == [o \in Operands |-> src_op_of(r, c, inst, o)]
  IN [r EXCEPT !.cu[c].free = FALSE,
               !.cu[c].out = p,
               !.cu[c].warp = inst,
               !.cu[c].src_op = ops,
               !.cu[c].not_ready = {o \in Operands : ops[o].valid},
               !.in_reg[p][sl] = NoInst,
               !.assert_failed = @ \/ ~r.cu[c].free \/ r.cu[c].not_ready # {}]

\* arbiter_t::add_read_requests from operand o on
RECURSIVE add_read_requests_from(_, _, _)
add_read_requests_from(r, c, o) ==
  IF o \notin Operands
  THEN r
  ELSE LET op == r.cu[c].src_op[o] IN
       IF op.valid
       THEN add_read_requests_from(
              [r EXCEPT !.queue[op.bank] = Append(@, op)], c, o + 1)
       ELSE add_read_requests_from(r, c, o + 1)

\* arbiter_t::add_read_requests
add_read_requests(r, c) == add_read_requests_from(r, c, 0)

\* opndcoll_rfu_t::allocate_cu(port)
allocate_cu(r, p) ==
  IF has_ready(r.in_reg[p])
  THEN LET inst == r.in_reg[p][get_ready(r.in_reg[p])]
           cusPerSched == r.cfg.num_cu \div r.cfg.num_warp_scheds
           lo == IF r.cfg.sub_core_model THEN inst.sched * cusPerSched ELSE 0
           hi == IF r.cfg.sub_core_model THEN lo + cusPerSched ELSE r.cfg.num_cu
           frees == {k \in lo..(hi - 1) : r.cu[k].free}
       IN IF frees = {}
          THEN [r EXCEPT !.phases = Append(@, phase("allocate_cu", p, -1, {}))]
          ELSE add_read_requests(
                 cu_allocate(
                   [r EXCEPT !.phases =
                      Append(@, phase("allocate_cu", p, Min(frees), {}))],
                   Min(frees), p),
                 Min(frees))
  ELSE [r EXCEPT !.phases = Append(@, phase("allocate_cu", p, -1, {}))]

\* for (unsigned p = 0; p < m_in_ports.size(); p++) allocate_cu(p);
RECURSIVE allocate_cu_ports(_, _)
allocate_cu_ports(r, p) ==
  IF p >= r.cfg.num_ports THEN r ELSE allocate_cu_ports(allocate_cu(r, p), p + 1)

\* opndcoll_rfu_t::process_banks
process_banks(r) ==
  reset_alloction(
    [r EXCEPT !.phases =
       Append(@, phase("process_banks", -1, -1,
                       {b \in DOMAIN r.alloc : r.alloc[b] # NO_ALLOC}))])

\* mutant of step: the collector units are allocated before the reads
step_AllocateFirst(r) ==
  process_banks(
    allocate_reads(
      allocate_cu_ports(
        dispatch_ready_cu([r EXCEPT !.phases = <<>>]), 0)))

\* opndcoll_rfu_t::step
step(r) ==
  process_banks(
    allocate_cu_ports(
      allocate_reads(
        dispatch_ready_cu([r EXCEPT !.phases = <<>>])), 0))

(***************************************************************************)
(* opndcoll_rfu_t::writeback                                               *)
(***************************************************************************)
\* the bank of destination operand o of inst
dst_bank(r, inst, o) ==
  register_bank(inst.dst[o + 1], inst.wid, r.cfg.num_banks,
                r.cfg.bank_warp_shift, r.cfg.sub_core_model,
                banks_per_sched(r.cfg), inst.sched)

\* the loop over the destination operands from operand o on: each
\* destination register attempts allocate_bank_for_write, a busy bank stalls
RECURSIVE writeback_from(_, _, _)
writeback_from(r, inst, o) ==
  IF o \notin Operands
  THEN [rfu |-> r, ok |-> TRUE]
  ELSE IF inst.dst[o + 1] >= 0
       THEN IF bank_idle(r, dst_bank(r, inst, o))
            THEN writeback_from(
                   allocate_bank_for_write(r, dst_bank(r, inst, o)),
                   inst, o + 1)
            ELSE [rfu |-> r, ok |-> FALSE]
       ELSE writeback_from(r, inst, o + 1)

\* mutant of writeback: the banks allocated before the busy one stay allocated
writeback_Partial(r, inst) == writeback_from(r, inst, 0)

\* opndcoll_rfu_t::writeback(inst): all destinations or none
writeback(r, inst) ==
  LET w == writeback_from(r, inst, 0) IN
    IF w.ok THEN w ELSE [rfu |-> r, ok |-> FALSE]

(***************************************************************************)
(* The collector in its shader core: issue, step, execute, write back      *)
(***************************************************************************)
\* the driver does not run while the collector is looked at
DriverOff ==
  /\ commandlist = <<>>
  /\ config = [concurrent_kernel_sm |-> FALSE, max_concurrent_kernel |-> 1,
               gpu_max_cycle_opt |-> Unlimited]
  /\ command_idx = 0
  /\ kernels_info = <<>>
  /\ busy_streams = <<>>
  /\ gpu = GpuInit
  /\ pc = "off"
  /\ lk = 0
  /\ finished_kernel_uid = 0
  /\ consumed = <<>>
  /\ launched = <<>>

InitRFU ==
  /\ DriverOff
  /\ rfu \in {RfuInit(cfg) : cfg \in RfuConfigs}
  /\ token = NoToken
  /\ mf = NoFetch
  /\ mem = NoMem
  /\ net = NoNet

\* a scheduler issues a warp instruction into the input register of port p
IssueWarp ==
  /\ rfu.issued < MaxInsts
  /\ \E p \in DOMAIN rfu.in_reg, i \in Insts :
       LET sched == i.wid % rfu.cfg.num_warp_scheds
           inst == [id |-> rfu.issued + 1, wid |-> i.wid, src |-> i.src,
                    dst |-> i.dst, sched |-> sched]
       IN /\ has_free(rfu.in_reg[p], rfu.cfg.sub_core_model, sched)
          /\ rfu' = [rfu EXCEPT
               !.in_reg[p][get_free(rfu.in_reg[p], rfu.cfg.sub_core_model,
                                    sched)] = inst,
               !.issued = @ + 1,
               !.phases = <<>>]
  /\ UNCHANGED <<driver_vars, token, mf, mem, net>>

\* one cycle of the operand collector
Step ==
  /\ rfu' = step(rfu)
  /\ UNCHANGED <<driver_vars, token, mf, mem, net>>

\* a functional unit takes the instruction of an output register slot
FuIssue ==
  /\ \E p \in DOMAIN rfu.out_reg : \E sl \in DOMAIN rfu.out_reg[p] :
       /\ rfu.out_reg[p][sl] # NoInst
       /\ rfu' = [rfu EXCEPT !.out_reg[p][sl] = NoInst,
                             !.exec = @ \cup {rfu.out_reg[p][sl]},
                             !.phases = <<>>]
  /\ UNCHANGED <<driver_vars, token, mf, mem, net>>

\* a functional unit completes an instruction and calls writeback
Writeback ==
  /\ \E inst \in rfu.exec :
       LET w == writeback(rfu, inst) IN
         rfu' = [w.rfu EXCEPT !.exec = IF w.ok THEN @ \ {inst} ELSE @,
                              !.phases = <<>>]
  /\ UNCHANGED <<driver_vars, token, mf, mem, net>>

NextRFU ==
  \/ IssueWarp
  \/ Step
  \/ FuIssue
  \/ Writeback

SpecRFU == InitRFU /\ [][NextRFU]_vars

(***************************************************************************)
(* Properties of the operand collector                                     *)
(***************************************************************************)
\* the phases a step() of configuration cfg has to run, in order
StepPhases(cfg) ==
  <<"dispatch_ready_cu", "allocate_reads">>
    \o [p \in 1..cfg.num_ports |-> "allocate_cu"]
    \o <<"process_banks">>

\* the collector units the last step() allocated
AllocatedInStep ==
  {rfu.phases[i].cu : i \in {j \in DOMAIN rfu.phases :
                               /\ rfu.phases[j].phase = "allocate_cu"
                               /\ rfu.phases[j].cu # -1}}

\* the instructions in the output registers and in the functional units
Dispatched ==
  {rfu.out_reg[p][sl] : p \in DOMAIN rfu.out_reg, sl \in Slots(rfu.cfg)}
    \cup rfu.exec

\* C10: every step() runs dispatch_ready_cu, then allocate_reads, then
\* allocate_cu(p) once for every input port p in increasing port index, then
\* process_banks, and nothing else; a collector unit allocated in a step
\* leaves the step with every source operand still to be read, each of its
\* reads still queued at its bank, and its instruction not dispatched
C10_StepPhases ==
  rfu.phases # <<>> =>
    /\ [i \in DOMAIN rfu.phases |-> rfu.phases[i].phase] = StepPhases(rfu.cfg)
    /\ \A i \in DOMAIN rfu.phases :
         rfu.phases[i].phase = "allocate_cu" =>
           rfu.phases[i].port = i - 3
    /\ \A c \in AllocatedInStep :
         /\ ~rfu.cu[c].free
         /\ rfu.cu[c].not_ready = {o \in Operands : rfu.cu[c].src_op[o].valid}
         /\ \A o \in rfu.cu[c].not_ready :
              \E n \in DOMAIN rfu.queue[rfu.cu[c].src_op[o].bank] :
                rfu.queue[rfu.cu[c].src_op[o].bank][n] = rfu.cu[c].src_op[o]
         /\ \A i \in Dispatched : i = NoInst \/ i.id # rfu.cu[c].warp.id

\* C10 witness: the last step() dispatched a collector unit and allocated
\* the same unit again, to an instruction with source operands to read
C10_Witness ==
  /\ rfu.phases # <<>>
  /\ rfu.phases[1].cu # -1
  /\ rfu.phases[1].cu \in AllocatedInStep
  /\ rfu.cu[rfu.phases[1].cu].not_ready # {}

\* the banks the destination registers of inst are written to
DstBanks(inst) ==
  {dst_bank(rfu, inst, o) : o \in {x \in Operands : inst.dst[x + 1] >= 0}}

\* C11: bank exclusivity: no bank is granted while it is already granted in
\* the same cycle, to a read or to a write: the is_free() assertions of
\* alloc_read and alloc_write never fail, however the writeback calls
\* interleave with step(), and between two steps a bank is granted to a write
\* only
C11_BankExclusive ==
  /\ ~rfu.assert_failed
  /\ \A b \in DOMAIN rfu.alloc : rfu.alloc[b] \in {NO_ALLOC, WRITE_ALLOC}

\* C11 witness: a bank is granted to a write while a read is queued for it
\* and a second instruction waits to write to it
C11_Witness ==
  \E b \in DOMAIN rfu.alloc :
    /\ rfu.alloc[b] = WRITE_ALLOC
    /\ rfu.queue[b] # <<>>
    /\ \E inst \in rfu.exec : b \in DstBanks(inst)

\* the entry of phase name in the log of the last step()
PhaseEntry(name) ==
  rfu.phases[CHOOSE i \in DOMAIN rfu.phases : rfu.phases[i].phase = name]

\* C12: the allocation table is reset every cycle: after init and after
\* every step() every bank is free, so no grant of one cycle is seen in a
\* later cycle
C12_AllocReset ==
  (rfu.phases # <<>> \/ rfu.issued = 0) =>
    \A b \in DOMAIN rfu.alloc : bank_idle(rfu, b)

\* C12 witness: the last step() granted a read, and its process_banks reset
\* that read allocation and a write allocation
C12_Witness ==
  /\ rfu.phases # <<>>
  /\ PhaseEntry("allocate_reads").banks # {}
  /\ PhaseEntry("process_banks").banks \ PhaseEntry("allocate_reads").banks # {}
  /\ \A b \in DOMAIN rfu.alloc : rfu.alloc[b] = NO_ALLOC

\* the banks the step() that led to r granted to reads
GrantedInStep(r) ==
  r.phases[CHOOSE i \in DOMAIN r.phases :
             r.phases[i].phase = "allocate_reads"].banks

\* the transition is a step(): only step() leaves a log of its phases
StepTaken == rfu'.phases # <<>>

\* a step() leaves the read at the head of the queue of a write-allocated
\* bank where it is: not granted, still queued, its operand still not ready
WriteBeforeRead ==
  StepTaken =>
    \A b \in DOMAIN rfu.alloc :
      (rfu.alloc[b] = WRITE_ALLOC /\ rfu.queue[b] # <<>>) =>
        /\ b \notin GrantedInStep(rfu')
        /\ Len(rfu'.queue[b]) >= Len(rfu.queue[b])
        /\ SubSeq(rfu'.queue[b], 1, Len(rfu.queue[b])) = rfu.queue[b]
        /\ Head(rfu.queue[b]).operand
             \in rfu'.cu[Head(rfu.queue[b]).cu].not_ready

\* a step() grants the read at the head of the queue of a bank that no
\* writeback holds, unless its collector unit is granted another bank in
\* that step; the granted read leaves the queue and its operand is ready
ReadGrantedLater ==
  StepTaken =>
    \A b \in DOMAIN rfu.alloc :
      (rfu.alloc[b] # WRITE_ALLOC /\ rfu.queue[b] # <<>>) =>
        \/ /\ b \in GrantedInStep(rfu')
           /\ SubSeq(rfu'.queue[b], 1, Len(rfu.queue[b]) - 1)
                = Tail(rfu.queue[b])
           /\ Head(rfu.queue[b]).operand
                \notin rfu'.cu[Head(rfu.queue[b]).cu].not_ready
        \/ \E b2 \in GrantedInStep(rfu') \ {b} :
             Head(rfu.queue[b2]).cu = Head(rfu.queue[b]).cu

AllocatedIn(r) ==
  {r.phases[i].cu : i \in {j \in DOMAIN r.phases :
                             /\ r.phases[j].phase = "allocate_cu"
                             /\ r.phases[j].cu # -1}}

\* the operands of unit c that the step() of this transition reads
ReadInStep(c) ==
  {Head(rfu.queue[b]).operand :
     b \in {x \in GrantedInStep(rfu') : Head(rfu.queue[x]).cu = c}}

\* the not_ready mask of unit c over one transition
NotReadyMonotone(c) ==
  LET old == rfu.cu[c]
      new == rfu'.cu[c]
  IN /\ new.not_ready \ old.not_ready # {} =>
          StepTaken /\ c \in AllocatedIn(rfu')
     /\ (~old.free /\ ~new.free /\ new.warp.id = old.warp.id) =>
          /\ new.not_ready \subseteq old.not_ready
          /\ old.not_ready \ new.not_ready =
               IF StepTaken THEN ReadInStep(c) ELSE {}
          /\ Cardinality(old.not_ready \ new.not_ready) <= 1
     /\ (~old.free /\ (new.free \/ new.warp.id # old.warp.id)) =>
          /\ StepTaken
          /\ rfu'.phases[1].cu = c
          /\ old.not_ready = {}
          /\ new.free => new.not_ready = {}

\* C14: collector unit monotonicity: while a unit holds an instruction its
\* not_ready mask only loses bits, one per granted operand read and no
\* other; the mask gains bits only when the unit is allocated; the unit
\* gives up its instruction only at dispatch, with the mask all-zero before
\* and after
C14_NotReadyMonotone ==
  [][\A c \in DOMAIN rfu.cu : NotReadyMonotone(c)]_vars

\* C14 witness: the last step() read one of the two operands of a unit and
\* dispatched another unit
C14_Witness ==
  /\ rfu.phases # <<>>
  /\ rfu.phases[1].cu # -1
  /\ \E c \in DOMAIN rfu.cu :
       /\ ~rfu.cu[c].free
       /\ c \notin AllocatedIn(rfu)
       /\ rfu.cu[c].not_ready # {}
       /\ rfu.cu[c].not_ready # {o \in Operands : rfu.cu[c].src_op[o].valid}
       /\ rfu.cu[c].src_op[CHOOSE o \in Operands :
                             /\ rfu.cu[c].src_op[o].valid
                             /\ o \notin rfu.cu[c].not_ready].bank
            \in GrantedInStep(rfu)

\* C15 as stated: a collector unit is free iff it holds no warp instruction
\* iff its not_ready mask is all-zero
C15_FreeIffEmptyIffZero ==
  \A c \in DOMAIN rfu.cu :
    /\ rfu.cu[c].free <=> rfu.cu[c].warp = NoInst
    /\ rfu.cu[c].free <=> rfu.cu[c].not_ready = {}

\* C15 amended: a collector unit is free iff it holds no warp instruction,
\* and a free unit has an all-zero not_ready mask (a unit that holds an
\* instruction has an all-zero mask too once all its operands are read)
C15_FreeIffEmpty ==
  \A c \in DOMAIN rfu.cu :
    /\ rfu.cu[c].free <=> rfu.cu[c].warp = NoInst
    /\ rfu.cu[c].free => rfu.cu[c].not_ready = {}

\* C15 witness: a unit holds an instruction whose two source operands have
\* both been read, so its mask is all-zero, while another unit is free
C15_Witness ==
  \E c, d \in DOMAIN rfu.cu :
    /\ ~rfu.cu[c].free
    /\ rfu.cu[c].warp # NoInst
    /\ \A o \in Operands : rfu.cu[c].src_op[o].valid
    /\ rfu.cu[c].not_ready = {}
    /\ rfu.cu[d].free

\* writeback(inst) in the current state: all destination banks or none
WritebackAtomic(inst) ==
  LET w == writeback(rfu, inst) IN
    /\ w.ok <=> \A b \in DstBanks(inst) : bank_idle(rfu, b)
    /\ w.ok => /\ \A b \in DstBanks(inst) : w.rfu.alloc[b] = WRITE_ALLOC
               /\ \A b \in DOMAIN rfu.alloc \ DstBanks(inst) :
                    w.rfu.alloc[b] = rfu.alloc[b]
    /\ ~w.ok => w.rfu = rfu

\* outside step() the table changes only by a writeback that completes an
\* instruction; an instruction whose writeback stalled stays with its
\* functional unit, to be retried
WritebackRetried ==
  ~StepTaken =>
    \/ /\ rfu'.alloc = rfu.alloc
       /\ rfu.exec \subseteq rfu'.exec
    \/ \E inst \in rfu.exec :
         /\ rfu'.exec = rfu.exec \ {inst}
         /\ rfu'.alloc = writeback(rfu, inst).rfu.alloc
         /\ writeback(rfu, inst).ok

MaxReg == 5
MaxWid == 5

\* banks and warp schedulers of the register file: the banks partition
\* evenly among the schedulers
BankLayouts ==
  {[num_banks |-> 2, num_warp_scheds |-> 1],
   [num_banks |-> 4, num_warp_scheds |-> 1],
   [num_banks |-> 4, num_warp_scheds |-> 2],
   [num_banks |-> 8, num_warp_scheds |-> 2],
   [num_banks |-> 8, num_warp_scheds |-> 4]}

\* the arguments of the op_t constructor
OpArgs ==
  UNION {{[reg |-> reg, wid |-> wid, num_banks |-> l.num_banks,
           bank_warp_shift |-> sh, sub_core_model |-> sc,
           banks_per_sched |-> l.num_banks \div l.num_warp_scheds,
           sched_id |-> sid] :
            reg \in 0..MaxReg, wid \in 0..MaxWid, sh \in {0, 1, 2},
            sc \in BOOLEAN, sid \in 0..(l.num_warp_scheds - 1)} :
         l \in BankLayouts}

InitOp ==
  /\ DriverOff
  /\ rfu = NoRfu
  /\ mf = NoFetch
  /\ mem = NoMem
  /\ net = NoNet
  /\ token \in {[valid |-> FALSE, args |-> a] : a \in OpArgs}

\* the token is constructed from the arguments
ConstructOp ==
  /\ ~token.valid
  /\ token' = op_t(0, token.args.wid, 0, token.args.reg, token.args.num_banks,
                   token.args.bank_warp_shift, token.args.sub_core_model,
                   token.args.banks_per_sched, token.args.sched_id)
                @@ [args |-> token.args]
  /\ UNCHANGED <<driver_vars, rfu, mf, mem, net>>

NextOp == ConstructOp

SpecOp == InitOp /\ [][NextOp]_vars

\* reg + (wid >> bank_warp_shift) of the token's arguments
WarpShifted(a) == a.reg + (a.wid \div (2 ^ a.bank_warp_shift))

\* the slice of banks of scheduler sid
Slice(a, sid) ==
  (sid * a.banks_per_sched)..((sid + 1) * a.banks_per_sched - 1)

READ_REQUEST == "READ_REQUEST"
WRITE_REQUEST == "WRITE_REQUEST"
READ_REPLY == "READ_REPLY"
WRITE_ACK == "WRITE_ACK"
mf_type == {READ_REQUEST, WRITE_REQUEST, READ_REPLY, WRITE_ACK}

\* enum mem_fetch_status, in the order of the enumeration
mem_fetch_status ==
  <<"MEM_FETCH_INITIALIZED", "IN_L1I_MISS_QUEUE", "IN_L1D_MISS_QUEUE",
    "IN_L1T_MISS_QUEUE", "IN_L1C_MISS_QUEUE", "IN_L1TLB_MISS_QUEUE",
    "IN_VM_MANAGER_QUEUE", "IN_ICNT_TO_MEM", "IN_PARTITION_ROP_DELAY",
    "IN_PARTITION_ICNT_TO_L2_QUEUE", "IN_PARTITION_L2_TO_DRAM_QUEUE",
    "IN_PARTITION_DRAM_LATENCY_QUEUE", "IN_PARTITION_L2_MISS_QUEUE",
    "IN_PARTITION_MC_INTERFACE_QUEUE", "IN_PARTITION_MC_INPUT_QUEUE",
    "IN_PARTITION_MC_BANK_ARB_QUEUE", "IN_PARTITION_DRAM",
    "IN_PARTITION_MC_RETURNQ", "IN_PARTITION_DRAM_TO_L2_QUEUE",
    "IN_PARTITION_L2_FILL_QUEUE", "IN_PARTITION_L2_TO_ICNT_QUEUE",
    "IN_ICNT_TO_SHADER", "IN_CLUSTER_TO_SHADER_QUEUE",
    "IN_SHADER_LDST_RESPONSE_FIFO", "IN_SHADER_FETCHED", "IN_SHADER_L1T_ROB",
    "MEM_FETCH_DELETED">>

\* the access types (mem_access_type) the fetches are made for, and whether
\* the access writes
L1_WRBK_ACC == "L1_WRBK_ACC"
L2_WRBK_ACC == "L2_WRBK_ACC"
AccessTypes ==
  {[type |-> "GLOBAL_ACC_R", wr |-> FALSE], [type |-> "GLOBAL_ACC_W", wr |-> TRUE],
   [type |-> L1_WRBK_ACC, wr |-> TRUE], [type |-> L2_WRBK_ACC, wr |-> TRUE]}

\* the addresses and sizes of the accesses
Addrs == {0, 128}
Sizes == {32, 128}

\* WRITE_PACKET_SIZE and READ_PACKET_SIZE
WRITE_PACKET_SIZE == 8
READ_PACKET_SIZE == 8

\* mem_fetch::mem_fetch as the allocators call it: a request of the access
mem_fetch(uid, access, addr, size, ctrl_size) ==
  [uid |-> uid, access_type |-> access.type, is_write |-> access.wr,
   addr |-> addr, access_size |-> size,
   data_size |-> size, ctrl_size |-> ctrl_size,
   type |-> IF access.wr THEN WRITE_REQUEST ELSE READ_REQUEST,
   status |-> mem_fetch_status[1],
   assert_failed |-> FALSE]

\* shader_core_mem_fetch_allocator::alloc(addr, type, size, wr, cycle)
alloc(uid, access, addr, size) ==
  mem_fetch(uid, access, addr, size,
            IF access.wr THEN WRITE_PACKET_SIZE ELSE READ_PACKET_SIZE)

\* mutant of is_reply: a write acknowledgement is not taken for a reply
is_reply_ReadOnly(m) == m.type = READ_REPLY

\* mem_fetch::is_reply
is_reply(m) == m.type = READ_REPLY \/ m.type = WRITE_ACK

\* mutant of set_reply: a write request becomes a read reply
set_reply_ReadReply(m) ==
  IF m.access_type = L1_WRBK_ACC \/ m.access_type = L2_WRBK_ACC
  THEN [m EXCEPT !.assert_failed = TRUE]
  ELSE IF m.type = READ_REQUEST \/ m.type = WRITE_REQUEST
       THEN [m EXCEPT !.type = READ_REPLY]
       ELSE m

\* mutant of set_reply: the call on a reply turns it back into its request
set_reply_Toggle(m) ==
  IF m.access_type = L1_WRBK_ACC \/ m.access_type = L2_WRBK_ACC
  THEN [m EXCEPT !.assert_failed = TRUE]
  ELSE IF m.type = READ_REQUEST
       THEN [m EXCEPT !.type = READ_REPLY]
       ELSE IF m.type = WRITE_REQUEST
            THEN [m EXCEPT !.type = WRITE_ACK]
            ELSE IF m.type = READ_REPLY
                 THEN [m EXCEPT !.type = READ_REQUEST]
                 ELSE [m EXCEPT !.type = WRITE_REQUEST]

\* mutant of set_reply: the access type is not asserted, a write-back is
\* answered like any other write
set_reply_NoWritebackCheck(m) ==
  IF m.type = READ_REQUEST
  THEN IF m.is_write
       THEN [m EXCEPT !.assert_failed = TRUE]
       ELSE [m EXCEPT !.type = READ_REPLY]
  ELSE IF m.type = WRITE_REQUEST
       THEN IF ~m.is_write
            THEN [m EXCEPT !.assert_failed = TRUE]
            ELSE [m EXCEPT !.type = WRITE_ACK]
       ELSE m

\* mem_fetch::set_reply; a failed assertion ends the program
set_reply(m) ==
  IF m.access_type = L1_WRBK_ACC \/ m.access_type = L2_WRBK_ACC
  THEN [m EXCEPT !.assert_failed = TRUE]
  ELSE IF m.type = READ_REQUEST
       THEN IF m.is_write
            THEN [m EXCEPT !.assert_failed = TRUE]
            ELSE [m EXCEPT !.type = READ_REPLY]
       ELSE IF m.type = WRITE_REQUEST
            THEN IF ~m.is_write
                 THEN [m EXCEPT !.assert_failed = TRUE]
                 ELSE [m EXCEPT !.type = WRITE_ACK]
            ELSE m

\* mem_fetch::set_status
set_status(m, status) == [m EXCEPT !.status = status]

\* mem_fetch::set_data_size
set_data_size(m, size) == [m EXCEPT !.data_size = size]

\* mem_fetch::set_addr
set_addr(m, addr) == [m EXCEPT !.addr = addr]

\* mem_fetch::size
size(m) == m.data_size + m.ctrl_size

(***************************************************************************)
(* One memory fetch and the operations its hosting components apply to it  *)
(***************************************************************************)
InitMf ==
  /\ DriverOff
  /\ rfu = NoRfu
  /\ token = NoToken
  /\ mem = NoMem
  /\ net = NoNet
  /\ mf \in {alloc(uid, access, addr, sz) :
               uid \in {1, 2}, access \in AccessTypes, addr \in Addrs,
               sz \in Sizes}

\* a component calls set_reply
SetReply ==
  /\ ~mf.assert_failed
  /\ mf' = set_reply(mf)
  /\ UNCHANGED <<driver_vars, rfu, token, mem, net>>

\* a component moves the fetch on and calls set_status
SetStatus ==
  /\ ~mf.assert_failed
  /\ \E i \in DOMAIN mem_fetch_status : mf' = set_status(mf, mem_fetch_status[i])
  /\ UNCHANGED <<driver_vars, rfu, token, mem, net>>

\* a component calls set_data_size
SetDataSize ==
  /\ ~mf.assert_failed
  /\ \E sz \in Sizes : mf' = set_data_size(mf, sz)
  /\ UNCHANGED <<driver_vars, rfu, token, mem, net>>

\* a component calls set_addr
SetAddr ==
  /\ ~mf.assert_failed
  /\ \E addr \in Addrs : mf' = set_addr(mf, addr)
  /\ UNCHANGED <<driver_vars, rfu, token, mem, net>>

NextMf ==
  \/ SetReply
  \/ SetStatus
  \/ SetDataSize
  \/ SetAddr

SpecMf == InitMf /\ [][NextMf]_vars

\* C18: for every fetch in every reachable state is_reply() is true if and
\* only if the type of the fetch is READ_REPLY or WRITE_ACK, and false if and
\* only if it is one of the two request types
C18_IsReply ==
  /\ mf.type \in mf_type
  /\ is_reply(mf) <=> mf.type \in {READ_REPLY, WRITE_ACK}
  /\ ~is_reply(mf) <=> mf.type \in {READ_REQUEST, WRITE_REQUEST}

\* C18 witness: a write acknowledgement, after set_reply on a write request
C18_Witness ==
  /\ mf.type = WRITE_ACK
  /\ mf.is_write
  /\ is_reply(mf)

\* the fetch is made for a write-back access
IsWriteback(m) == m.access_type \in {L1_WRBK_ACC, L2_WRBK_ACC}

\* set_reply on the fetch m, not a write-back: the request becomes its
\* reply, nothing else changes, no assertion fails
SetReplyFlips(m) ==
  LET m2 == set_reply(m) IN
    /\ m.type = READ_REQUEST => m2.type = READ_REPLY
    /\ m.type = WRITE_REQUEST => m2.type = WRITE_ACK
    /\ [m2 EXCEPT !.type = m.type] = m
    /\ is_reply(m2)

\* C19: set_reply() on a fetch that is not a write-back turns READ_REQUEST
\* into READ_REPLY and WRITE_REQUEST into WRITE_ACK and changes nothing else
\* of the fetch; after it is_reply() holds; and no operation turns a reply
\* back into a request
C19_SetReply ==
  /\ [](~IsWriteback(mf) => SetReplyFlips(mf))
  /\ [][is_reply(mf) => is_reply(mf') /\ mf'.type = mf.type]_vars
  /\ [][mf'.type # mf.type => ~IsWriteback(mf) /\ mf' = set_reply(mf)]_vars

\* C19 witness: a read reply whose status, data size and address were set
\* after the fetch was made
C19_Witness ==
  /\ mf.type = READ_REPLY
  /\ mf.status = "IN_ICNT_TO_SHADER"
  /\ mf.data_size # mf.access_size
  /\ mf.addr = 128

\* C20: reply idempotence: set_reply() on a fetch that is already a reply
\* leaves the fetch unchanged, so set_reply applied twice equals set_reply
\* applied once
C20_ReplyIdempotent ==
  /\ is_reply(mf) => set_reply(mf) = mf
  /\ set_reply(set_reply(mf)) = set_reply(mf)

\* C20 witness: a write acknowledgement on its way back, on which a further
\* set_reply is a call on a reply
C20_Witness ==
  /\ is_reply(mf)
  /\ mf.type = WRITE_ACK
  /\ mf.status = "IN_PARTITION_L2_TO_ICNT_QUEUE"

\* set_reply on the write-back fetch m whose type is t: the assertion fails
\* and nothing of the fetch changes
SetReplyFatal(m, t) ==
  LET m1 == [m EXCEPT !.type = t]
      m2 == set_reply(m1)
  IN /\ m2.assert_failed
     /\ m2.type = t
     /\ [m2 EXCEPT !.assert_failed = m1.assert_failed] = m1

\* C21: set_reply() on a fetch whose access type is L1_WRBK_ACC or
\* L2_WRBK_ACC is a fatal assertion failure and does not change the type of
\* the fetch, whatever its current type; nothing runs after the failure, and
\* a write-back fetch never changes its type
C21_WritebackSetReplyFatal ==
  /\ [](IsWriteback(mf) => \A t \in mf_type : SetReplyFatal(mf, t))
  /\ [](mf.assert_failed => IsWriteback(mf))
  /\ [][IsWriteback(mf) => mf'.type = mf.type]_vars
  /\ [][~mf.assert_failed]_vars

\* C21 witness: set_reply was called on an L2 write-back that had moved on;
\* the assertion has failed and the fetch still is a write request
C21_Witness ==
  /\ mf.access_type = L2_WRBK_ACC
  /\ mf.assert_failed
  /\ mf.type = WRITE_REQUEST
  /\ mf.status = "IN_PARTITION_L2_TO_DRAM_QUEUE"

(***************************************************************************)
(* The life of the fetches of one shader core: LDST unit, L1 data cache    *)
(* with its MSHR table and miss queue, interconnect, L2 partition, DRAM    *)
(***************************************************************************)
\* the number of accesses the LDST unit makes
MaxFetches == 3

\* enum cache_reservation_fail_reason
cache_reservation_fail_reason ==
  {"LINE_ALLOC_FAIL", "MISS_QUEUE_FULL", "MSHR_ENRTY_FAIL",
   "MSHR_MERGE_ENRTY_FAIL", "MSHR_RW_PENDING"}

\* the accesses of the LDST unit: global loads and stores
GLOBAL_ACC_R == [type |-> "GLOBAL_ACC_R", wr |-> FALSE]
GLOBAL_ACC_W == [type |-> "GLOBAL_ACC_W", wr |-> TRUE]

\* cache geometries: ways of the one set of the L1, entries of the MSHR
\* table, fetches per MSHR entry, slots of the L1 miss queue
MemConfigs ==
  {[assoc |-> 1, mshr_entries |-> 2, mshr_max_merge |-> 2, miss_queue_size |-> 2],
   [assoc |-> 2, mshr_entries |-> 1, mshr_max_merge |-> 2, miss_queue_size |-> 2],
   [assoc |-> 2, mshr_entries |-> 2, mshr_max_merge |-> 2, miss_queue_size |-> 1]}

\* the queues a fetch crosses from the L1 miss queue to the response FIFO of
\* the LDST unit, in data-flow order; a fetch in a queue has the status of
\* the same name
Stages ==
  <<"IN_L1D_MISS_QUEUE", "IN_ICNT_TO_MEM", "IN_PARTITION_ICNT_TO_L2_QUEUE",
    "IN_PARTITION_DRAM", "IN_PARTITION_DRAM_TO_L2_QUEUE",
    "IN_PARTITION_L2_FILL_QUEUE", "IN_ICNT_TO_SHADER",
    "IN_SHADER_LDST_RESPONSE_FIFO">>

\* the slots of a queue
capacity(ms, i) == IF i = 1 THEN ms.cfg.miss_queue_size ELSE 1

\* the stages a fetch enters by a push into the interconnect
IcntStages == {"IN_ICNT_TO_MEM", "IN_ICNT_TO_SHADER"}

\* what one cycle of the memory system records
NoLog == [delivered |-> {}, failed |-> <<>>, sent |-> {}, merged |-> {}]

\* the memory system before the first access
MemInit(cfg, l2) ==
  [cfg |-> cfg,
   next_uid |-> 1,
   fetch |-> <<>>,
   wid |-> <<>>,
   ldst |-> <<>>,
   l1 |-> [a \in Addrs |-> "invalid"],
   mshr |-> [a \in Addrs |-> <<>>],
   q |-> [i \in DOMAIN Stages |-> <<>>],
   fetched |-> {},
   l2 |-> l2,
   log |-> NoLog]

\* line = addr & ~(line_size-1); the accesses are line aligned
line_of(f) == f.addr

\* set_status on the fetch u
fetch_status(ms, u, st) == [ms EXCEPT !.fetch[u] = set_status(@, st)]

\* set_status on every fetch of the sequence us, from the i-th on
RECURSIVE set_all(_, _, _, _)
set_all(ms, us, i, st) ==
  IF i > Len(us) THEN ms ELSE set_all(fetch_status(ms, us[i], st), us, i + 1, st)

\* ldst_unit: a memory instruction of warp wid makes an access; its fetch is
\* born MEM_FETCH_INITIALIZED with the next uid and waits for the L1
ldst_issue(ms, access, addr, wid) ==
  [ms EXCEPT !.fetch = Append(@, alloc(ms.next_uid, access, addr, 32)),
             !.wid = Append(@, wid),
             !.ldst = Append(@, ms.next_uid),
             !.next_uid = @ + 1]

\* mshr_table::probe: the line has an entry, a request for it is outstanding
mshr_probe(ms, a) == ms.mshr[a] # <<>>

\* mshr_table::full: no room to merge into the entry of the line, or no
\* free entry for a line that has none
mshr_full(ms, a) ==
  IF mshr_probe(ms, a)
  THEN Len(ms.mshr[a]) >= ms.cfg.mshr_max_merge
  ELSE Cardinality({b \in Addrs : mshr_probe(ms, b)}) >= ms.cfg.mshr_entries

\* the L1 miss queue has no free slot
miss_queue_full(ms) == Len(ms.q[1]) >= capacity(ms, 1)

\* every way of the set holds a reserved line: no line can be allocated
all_reserved(ms) ==
  /\ Cardinality({a \in Addrs : ms.l1[a] # "invalid"}) >= ms.cfg.assoc
  /\ \A a \in Addrs : ms.l1[a] # "valid"

\* the lines evicted to put a missing line in: none while a way is free,
\* else one valid line
victim(ms) ==
  IF Cardinality({a \in Addrs : ms.l1[a] # "invalid"}) < ms.cfg.assoc
  THEN {}
  ELSE {a \in Addrs : /\ ms.l1[a] = "valid"
                      /\ \A b \in Addrs : ms.l1[b] = "valid" => a <= b}

\* the reason a read miss of line a cannot be served, "" when it can
miss_fail_reason(ms, a) ==
  IF mshr_probe(ms, a)
  THEN IF mshr_full(ms, a) THEN "MSHR_MERGE_ENRTY_FAIL" ELSE ""
  ELSE IF all_reserved(ms) THEN "LINE_ALLOC_FAIL"
       ELSE IF miss_queue_full(ms) THEN "MISS_QUEUE_FULL"
            ELSE IF mshr_full(ms, a) THEN "MSHR_ENRTY_FAIL"
                 ELSE ""

\* a reservation failure: the reason is counted, nothing else changes, the
\* access stays with the LDST unit
reservation_fail(ms, u, reason) ==
  [ms EXCEPT !.log.failed = Append(@, [uid |-> u, reason |-> reason])]

\* the data of the fetch u is handed to its warp
deliver(ms, u) ==
  [fetch_status(ms, u, "IN_SHADER_FETCHED") EXCEPT
     !.fetched = @ \cup {u}, !.log.delivered = @ \cup {u}]

\* mutant of mshr_merge: the merged fetch is sent downstream as well
mshr_merge_AndSend(ms, u, a) ==
  [fetch_status(ms, u, "IN_L1D_MISS_QUEUE") EXCEPT
     !.mshr[a] = Append(@, u), !.q[1] = Append(@, u),
     !.ldst = Tail(@), !.log.merged = @ \cup {u}, !.log.sent = @ \cup {u}]

\* the miss merges into the entry of the outstanding line: the fetch joins
\* the waiters, no request is sent
mshr_merge(ms, u, a) ==
  [fetch_status(ms, u, "IN_L1D_MISS_QUEUE") EXCEPT
     !.mshr[a] = Append(@, u), !.ldst = Tail(@), !.log.merged = @ \cup {u}]

\* the miss allocates: a way is reserved for the line (the victim is
\* evicted), an MSHR entry is made, the fetch enters the miss queue
mshr_allocate(ms, u, a) ==
  LET v == victim(ms)
      l1 == [b \in Addrs |-> IF b = a THEN "reserved"
                             ELSE IF b \in v THEN "invalid" ELSE ms.l1[b]]
  IN [fetch_status(ms, u, "IN_L1D_MISS_QUEUE") EXCEPT
        !.l1 = l1, !.mshr[a] = <<u>>, !.q[1] = Append(@, u),
        !.ldst = Tail(@), !.log.sent = @ \cup {u}]

\* l1 data cache, read access of the fetch u
l1_read(ms, u) ==
  LET a == line_of(ms.fetch[u])
      reason == miss_fail_reason(ms, a)
  IN IF ms.l1[a] = "valid"
     THEN [deliver(ms, u) EXCEPT !.ldst = Tail(@)]
     ELSE IF reason # ""
          THEN reservation_fail(ms, u, reason)
          ELSE IF mshr_probe(ms, a)
               THEN mshr_merge(ms, u, a)
               ELSE mshr_allocate(ms, u, a)

\* l1 data cache, write access of the fetch u: write-through, no allocation
l1_write(ms, u) ==
  IF miss_queue_full(ms)
  THEN reservation_fail(ms, u, "MISS_QUEUE_FULL")
  ELSE [fetch_status(ms, u, "IN_L1D_MISS_QUEUE") EXCEPT
          !.q[1] = Append(@, u), !.ldst = Tail(@), !.log.sent = @ \cup {u}]

\* ldst_unit::cycle: the oldest waiting access goes to the L1
ldst_access(ms) ==
  IF ms.ldst = <<>> THEN ms
  ELSE IF ms.fetch[Head(ms.ldst)].is_write
       THEN l1_write(ms, Head(ms.ldst))
       ELSE l1_read(ms, Head(ms.ldst))

\* the index of a stage
stage(name) == CHOOSE i \in DOMAIN Stages : Stages[i] = name

\* the queue of stage j takes a fetch; a push into the interconnect needs
\* has_buffer
has_room(ms, j, has_buffer) ==
  /\ Len(ms.q[j]) < capacity(ms, j)
  /\ Stages[j] \in IcntStages => has_buffer

\* the head of queue i moves to queue j
move(ms, i, j) ==
  LET u == Head(ms.q[i])
  IN [fetch_status(ms, u, Stages[j]) EXCEPT
        !.q[i] = Tail(@), !.q[j] = Append(ms.q[j], u)]

\* the fetch u becomes the reply of its request
fetch_reply(ms, u) == [ms EXCEPT !.fetch[u] = set_reply(@)]

\* the L2 partition takes the request at the head of its input queue: a
\* hit is answered from the L2, a miss goes on to DRAM
l2_access(ms, has_buffer) ==
  LET i == stage("IN_PARTITION_ICNT_TO_L2_QUEUE")
      u == Head(ms.q[i])
      hit == line_of(ms.fetch[u]) \in ms.l2
      j == IF hit THEN stage("IN_ICNT_TO_SHADER") ELSE stage("IN_PARTITION_DRAM")
  IN IF ~has_room(ms, j, has_buffer) THEN ms
     ELSE IF hit THEN move(fetch_reply(ms, u), i, j) ELSE move(ms, i, j)

\* mutant of dram_return: the fetch enters the DRAM-to-L2 queue as the
\* request it was
dram_return_NoReply(ms, has_buffer) ==
  LET i == stage("IN_PARTITION_DRAM")
  IN IF ~has_room(ms, i + 1, has_buffer) THEN ms ELSE move(ms, i, i + 1)

\* DRAM returns the data of the request at its head: the fetch becomes a
\* reply and enters the DRAM-to-L2 queue
dram_return(ms, has_buffer) ==
  LET i == stage("IN_PARTITION_DRAM")
  IN IF ~has_room(ms, i + 1, has_buffer) THEN ms
     ELSE move(fetch_reply(ms, Head(ms.q[i])), i, i + 1)

\* the L2 is filled with the line of a read reply, which leaves for the
\* interconnect
l2_fill(ms, has_buffer) ==
  LET i == stage("IN_PARTITION_L2_FILL_QUEUE")
      f == ms.fetch[Head(ms.q[i])]
  IN IF ~has_room(ms, i + 1, has_buffer) THEN ms
     ELSE [move(ms, i, i + 1) EXCEPT
             !.l2 = IF f.is_write THEN @ ELSE @ \cup {line_of(f)}]

\* the reply arrives at the shader and enters the response FIFO; the
\* waiters of its MSHR entry take the status of the parent
response_arrive(ms, has_buffer) ==
  LET i == stage("IN_ICNT_TO_SHADER")
      f == ms.fetch[Head(ms.q[i])]
      m1 == move(ms, i, i + 1)
  IN IF ~has_room(ms, i + 1, has_buffer) THEN ms
     ELSE IF f.is_write THEN m1
          ELSE set_all(m1, ms.mshr[line_of(f)], 1, "IN_SHADER_LDST_RESPONSE_FIFO")

\* the fetch at the head of queue i moves on, if the next stage takes it
advance(ms, i, has_buffer) ==
  IF ms.q[i] = <<>> THEN ms
  ELSE IF Stages[i] = "IN_PARTITION_ICNT_TO_L2_QUEUE" THEN l2_access(ms, has_buffer)
  ELSE IF Stages[i] = "IN_PARTITION_DRAM" THEN dram_return(ms, has_buffer)
  ELSE IF Stages[i] = "IN_PARTITION_L2_FILL_QUEUE" THEN l2_fill(ms, has_buffer)
  ELSE IF Stages[i] = "IN_ICNT_TO_SHADER" THEN response_arrive(ms, has_buffer)
  ELSE IF has_room(ms, i + 1, has_buffer) THEN move(ms, i, i + 1) ELSE ms

\* the value v handed to F: the steps of a cycle run one after the other,
\* each on the state the step before has left
Seq2(v, F(_)) == CHOOSE r \in {F(x) : x \in {v}} : TRUE

\* the queues step in reverse data-flow order, from queue i down to the L1
\* miss queue
RECURSIVE advance_from(_, _, _)
advance_from(ms, i, has_buffer) ==
  IF i = 0 THEN ms
  ELSE Seq2(advance(ms, i, has_buffer),
            LAMBDA m1 : advance_from(m1, i - 1, has_buffer))

\* the fetches of the sequence us, from the i-th on, get their data
RECURSIVE deliver_all(_, _, _)
deliver_all(ms, us, i) ==
  IF i > Len(us) THEN ms ELSE deliver_all(deliver(ms, us[i]), us, i + 1)

\* mutant of l1_fill: only the parent of the MSHR entry gets its data, the
\* entry is dropped with its other waiters
l1_fill_ParentOnly(ms) ==
  LET i == stage("IN_SHADER_LDST_RESPONSE_FIFO")
      u == Head(ms.q[i])
      a == line_of(ms.fetch[u])
  IN IF ms.q[i] = <<>> THEN ms
     ELSE IF ms.fetch[u].is_write
          THEN [deliver(ms, u) EXCEPT !.q[i] = Tail(@)]
          ELSE [deliver(ms, u) EXCEPT
                  !.q[i] = Tail(@), !.l1[a] = "valid", !.mshr[a] = <<>>]

\* the reply at the head of the response FIFO is taken: a read fills its
\* line in the L1 and every waiter of the MSHR entry gets its data, the
\* entry is freed; a write is acknowledged
l1_fill(ms) ==
  LET i == stage("IN_SHADER_LDST_RESPONSE_FIFO")
      u == Head(ms.q[i])
      a == line_of(ms.fetch[u])
  IN IF ms.q[i] = <<>> THEN ms
     ELSE IF ms.fetch[u].is_write
          THEN [deliver(ms, u) EXCEPT !.q[i] = Tail(@)]
          ELSE [deliver_all(ms, ms.mshr[a], 1) EXCEPT
                  !.q[i] = Tail(@), !.l1[a] = "valid", !.mshr[a] = <<>>]

\* the fetches of the set us, oldest first
in_order(ms, us) ==
  SelectSeq([i \in 1..Len(ms.fetch) |-> i], LAMBDA u : u \in us)

\* mutant of ldst_writeback: the fetch is deleted but stays noted as fetched
ldst_writeback_KeepFetched(ms) ==
  set_all(ms, in_order(ms, ms.fetched), 1, "MEM_FETCH_DELETED")

\* the LDST unit is done with the fetches whose data it handed over: they
\* are deleted
ldst_writeback(ms) ==
  [set_all(ms, in_order(ms, ms.fetched), 1, "MEM_FETCH_DELETED") EXCEPT
     !.fetched = {}]

\* the memory hierarchy behind the LDST unit steps: deletion of the fetches
\* handed over, L1 fill, then the queues in reverse data-flow order
mem_hierarchy(ms, has_buffer) ==
  Seq2(ldst_writeback([ms EXCEPT !.log = NoLog]), LAMBDA m1 :
    Seq2(l1_fill(m1), LAMBDA m2 :
      advance_from(m2, Len(Stages) - 1, has_buffer)))

\* one cycle of the memory system: every component steps, in reverse
\* data-flow order, the access of the LDST unit last
mem_cycle(ms, has_buffer) ==
  Seq2(mem_hierarchy(ms, has_buffer), LAMBDA m3 : ldst_access(m3))

\* the accesses the LDST unit makes: loads of two lines and a store
Accesses ==
  {[access |-> GLOBAL_ACC_R, addr |-> 0], [access |-> GLOBAL_ACC_R, addr |-> 128],
   [access |-> GLOBAL_ACC_W, addr |-> 0]}

InitMem ==
  /\ DriverOff
  /\ rfu = NoRfu
  /\ token = NoToken
  /\ mf = NoFetch
  /\ net = NoNet
  /\ mem \in {MemInit(cfg, l2) : cfg \in MemConfigs, l2 \in {{}, {0}}}

\* a memory instruction of a warp reaches the LDST unit
LdstIssue ==
  /\ mem.next_uid <= MaxFetches
  /\ \E x \in Accesses :
       mem' = ldst_issue(mem, x.access, x.addr, mem.next_uid - 1)
  /\ UNCHANGED <<driver_vars, rfu, token, mf, net>>

\* a cycle of the memory system; the interconnect has or has no buffer
MemCycle ==
  /\ \E has_buffer \in BOOLEAN : mem' = mem_cycle(mem, has_buffer)
  /\ UNCHANGED <<driver_vars, rfu, token, mf, net>>

NextMem ==
  \/ LdstIssue
  \/ MemCycle

SpecMem == InitMem /\ [][NextMem]_vars

\* a cycle in which the interconnect has buffer space
MemCycleBuffer ==
  /\ mem' = mem_cycle(mem, TRUE)
  /\ UNCHANGED <<driver_vars, rfu, token, mf, net>>

\* every component is stepped every cycle, and the interconnect, which
\* advances every cycle, has buffer space again and again
SpecMemFair == SpecMem /\ WF_vars(MemCycleBuffer)

\* the places of the memory system ms that hold the fetch u: queues, MSHR
\* waiter lists, the fetches whose data was handed over
HoldersIn(ms, u) ==
  {<<"q", i>> : i \in {j \in DOMAIN Stages : \E k \in DOMAIN ms.q[j] : ms.q[j][k] = u}}
  \cup {<<"mshr", a>> : a \in {b \in Addrs : \E k \in DOMAIN ms.mshr[b] : ms.mshr[b][k] = u}}
  \cup {<<"fetched", 0>> : x \in {u} \cap ms.fetched}
  \cup {<<"ldst", 0>> : x \in {u} \cap {ms.ldst[k] : k \in DOMAIN ms.ldst}}

Holders(u) == HoldersIn(mem, u)

\* the fetch u is on its way: it has left the LDST unit and is not deleted
InFlight(u) ==
  mem.fetch[u].status \notin {"MEM_FETCH_INITIALIZED", "MEM_FETCH_DELETED"}

\* an in-flight fetch is held where its status says, and nowhere else but
\* for the parent of an MSHR entry, which is also in a queue or fetched
HeldByStatus(u) ==
  LET st == mem.fetch[u].status
      a == line_of(mem.fetch[u])
  IN /\ Holders(u) # {}
     /\ \A h \in Holders(u) :
          \/ h[1] = "q" /\ Stages[h[2]] = st
          \/ h[1] = "fetched" /\ st = "IN_SHADER_FETCHED"
          \/ h[1] = "mshr" /\ h[2] = a /\ ~mem.fetch[u].is_write

Deleted(ms, u) == ms.fetch[u].status = "MEM_FETCH_DELETED"

\* the cycle that led to ms has done something with the fetch u
Touched(ms, u) ==
  \/ u \in ms.log.delivered \cup ms.log.sent \cup ms.log.merged
  \/ \E i \in DOMAIN ms.log.failed : ms.log.failed[i].uid = u

\* C23: MEM_FETCH_DELETED is terminal: a deleted fetch is in no queue, in no
\* MSHR entry and not with the LDST unit, and no later operation changes
\* its status or type (or any other field), queues it, merges it into an
\* MSHR entry or delivers it to a warp
C23_DeletedTerminal ==
  /\ [](\A u \in DOMAIN mem.fetch : Deleted(mem, u) => Holders(u) = {})
  /\ [][\A u \in DOMAIN mem.fetch :
          Deleted(mem, u) => /\ mem'.fetch[u] = mem.fetch[u]
                             /\ HoldersIn(mem', u) = {}
                             /\ ~Touched(mem', u)]_vars

\* C23 witness: the load of a line is deleted while a later load of the same
\* line, a hit in the L1 it filled, gets its data
C23_Witness ==
  \E u, v \in DOMAIN mem.fetch :
    /\ u < v
    /\ Deleted(mem, u)
    /\ ~mem.fetch[u].is_write /\ ~mem.fetch[v].is_write
    /\ line_of(mem.fetch[u]) = line_of(mem.fetch[v])
    /\ v \in mem.log.delivered
    /\ mem.fetch[v].status = "IN_SHADER_FETCHED"

\* the read requests for line a that are on their way to memory or back
InFlightReads(a) ==
  {u \in DOMAIN mem.fetch :
     /\ ~mem.fetch[u].is_write
     /\ line_of(mem.fetch[u]) = a
     /\ \E h \in Holders(u) : h[1] = "q"}

\* at most one request per line is in flight, and it is the first fetch of
\* the MSHR entry of the line, which exists as long as the line is reserved
OneInFlight ==
  \A a \in Addrs :
    /\ Cardinality(InFlightReads(a)) <= 1
    /\ mshr_probe(mem, a) <=> mem.l1[a] = "reserved"
    /\ mshr_probe(mem, a) => InFlightReads(a) = {mem.mshr[a][1]}
    /\ ~mshr_probe(mem, a) => InFlightReads(a) = {}
    /\ Len(mem.mshr[a]) <= mem.cfg.mshr_max_merge
    /\ Cardinality({b \in Addrs : mshr_probe(mem, b)}) <= mem.cfg.mshr_entries

\* the step is a cycle of the memory system
CycleTaken == mem'.next_uid = mem.next_uid

\* a miss merged in this cycle joined the end of the waiter list of its
\* outstanding line and was not sent downstream
MergeSendsNothing ==
  \A u \in mem'.log.merged :
    LET a == line_of(mem.fetch[u])
    IN /\ mshr_probe(mem, a)
       /\ mem'.mshr[a] = Append(mem.mshr[a], u)
       /\ u \notin mem'.log.sent
       /\ HoldersIn(mem', u) = {<<"mshr", a>>}
       /\ mem'.q[1] = mem.q[1] \/ mem'.q[1] = Tail(mem.q[1])

\* when the reply of a line is taken, every waiter of the entry gets its
\* data in that cycle
WaitersServedTogether ==
  \A a \in Addrs :
    (mshr_probe(mem, a) /\ mem'.mshr[a] # mem.mshr[a]) =>
      \/ mem.ldst # <<>> /\ mem'.mshr[a] = Append(mem.mshr[a], Head(mem.ldst))
      \/ \A k \in DOMAIN mem.mshr[a] :
           /\ mem.mshr[a][k] \in mem'.log.delivered
           /\ mem'.fetch[mem.mshr[a][k]].status = "IN_SHADER_FETCHED"
           /\ is_reply(mem.fetch[mem.mshr[a][1]])

\* a miss that fails in this cycle records one reason, changes nothing but
\* the failure count, and stays at the head of the LDST unit
FailChangesNothing ==
  mem'.log.failed # <<>> =>
    \E has_buffer \in BOOLEAN :
      LET pre == mem_hierarchy(mem, has_buffer)
          u == Head(mem.ldst)
      IN /\ Len(mem'.log.failed) = 1
         /\ mem'.log.failed[1].uid = u
         /\ mem'.log.failed[1].reason \in cache_reservation_fail_reason
         /\ [mem' EXCEPT !.log.failed = <<>>] = pre
         /\ mem'.ldst = mem.ldst
         /\ mem'.fetch[u].status = "MEM_FETCH_INITIALIZED"
         /\ u \notin mem'.log.sent \cup mem'.log.merged \cup mem'.log.delivered

\* the access at the head of the LDST unit is tried in every cycle
RetriedNextCycle ==
  mem.ldst # <<>> => Touched(mem', Head(mem.ldst))

\* C24: MSHR coalescing: at most one request per line is in flight; a miss
\* to an outstanding line joins the waiter list of the entry and sends no
\* second request; when the reply returns all waiters get their data in the
\* same cycle; a miss that can neither merge nor allocate fails with one
\* recorded reason of the enumeration, changes no MSHR or cache state and
\* is retried in the next cycle
C24_MshrCoalescing ==
  /\ []OneInFlight
  /\ [][CycleTaken => /\ MergeSendsNothing
                      /\ WaitersServedTogether
                      /\ FailChangesNothing
                      /\ RetriedNextCycle]_vars

\* C24 witness: two loads of line 128 share one MSHR entry, the reply of
\* the first has reached the response FIFO and both wait for the fill; a
\* third load of the line found the entry full and failed in this cycle
C24_Witness ==
  /\ mem.mshr[128] = <<1, 2>>
  /\ mem.q[stage("IN_SHADER_LDST_RESPONSE_FIFO")] = <<1>>
  /\ mem.fetch[2].status = "IN_SHADER_LDST_RESPONSE_FIFO"
  /\ is_reply(mem.fetch[1]) /\ ~is_reply(mem.fetch[2])
  /\ mem.log.failed = <<[uid |-> 3, reason |-> "MSHR_MERGE_ENRTY_FAIL"]>>

(***************************************************************************)
(* AnyNet: the network file, the channels built from it, the routing       *)
(* tables and the routing function                                         *)
(***************************************************************************)
\* enum ParseType
NODE == "node"
ROUTER == "router"

\* the router and node numbers of the network files
Ids == {0, 1, 2, 3}

\* std::numeric_limits<int>::max()
INT_MAX == 2147483647

\* an absent entry of one of the maps of router_list
NoLink == [present |-> FALSE, port |-> -1, lat |-> 0]

\* std::pair<int, int>(port, lat) as an entry of router_list
Link(port, lat) == [present |-> TRUE, port |-> port, lat |-> lat]

\* one link of a line of the network file: "head_type head_id body_type
\* body_id [weight]"; a line with several links reads as one line per link
Decl(head_type, head_id, body_type, body_id, has_weight, weight) ==
  [head_type |-> head_type, head_id |-> head_id, body_type |-> body_type,
   body_id |-> body_id, has_weight |-> has_weight, weight |-> weight]

\* AnyNet before readFile: router_list[NODE], router_list[ROUTER] with the
\* routers that are their keys, node_list (-1: no entry), routing_table
\* (-1: no entry), the locals of route, the output set of the last call of
\* the routing function
NetInit(file, vcs) ==
  [pc |-> "readFile",
   file |-> file,
   keys |-> {},
   router_list |-> [t \in {NODE, ROUTER} |-> [r \in Ids |-> [x \in Ids |-> NoLink]]],
   node_list |-> [d \in Ids |-> -1],
   routing_table |-> [r \in Ids |-> [d \in Ids |-> -1]],
   r_start |-> 0,
   dist |-> [r \in Ids |-> INT_MAX],
   prev |-> [r \in Ids |-> -1],
   rlist |-> {},
   vcs |-> vcs,
   outputs |-> {},
   assert_failed |-> FALSE]

\* readFile, case HEAD_ID: the structures of the head are initialised
head_id_case(n, d) == [n EXCEPT !.keys = @ \cup {d.head_id}]

\* readFile, case BODY_ID: the link is entered with latency 1
body_id_case(n, d) ==
  LET n1 == IF d.body_type = ROUTER THEN [n EXCEPT !.keys = @ \cup {d.body_id}] ELSE n
  IN IF d.head_type = NODE /\ d.body_type = NODE
     THEN [n1 EXCEPT !.assert_failed = TRUE]
     ELSE IF d.head_type = NODE /\ d.body_type = ROUTER
     THEN IF n1.node_list[d.head_id] # -1 /\ n1.node_list[d.head_id] # d.body_id
          THEN [n1 EXCEPT !.assert_failed = TRUE]
          ELSE [n1 EXCEPT !.node_list[d.head_id] = d.body_id,
                          !.router_list[NODE][d.body_id][d.head_id] = Link(-1, 1)]
     ELSE IF d.head_type = ROUTER /\ d.body_type = NODE
     THEN IF n1.node_list[d.body_id] # -1 /\ n1.node_list[d.body_id] # d.head_id
          THEN [n1 EXCEPT !.assert_failed = TRUE]
          ELSE [n1 EXCEPT !.node_list[d.body_id] = d.head_id,
                          !.router_list[NODE][d.head_id][d.body_id] = Link(-1, 1)]
     ELSE [n1 EXCEPT
             !.router_list[ROUTER][d.head_id][d.body_id] = Link(-1, 1),
             !.router_list[ROUTER][d.body_id][d.head_id] =
                IF n1.router_list[ROUTER][d.body_id][d.head_id].present
                   /\ d.body_id # d.head_id
                THEN @ ELSE Link(-1, 1)]

\* readFile, case LINK_WEIGHT: router_list[head_type][head_id][body_id]
\* .second = link_weight; an entry that is not there is made, with port 0
link_weight_case(n, d) ==
  IF ~d.has_weight \/ n.assert_failed THEN n
  ELSE [n EXCEPT !.router_list[d.head_type][d.head_id][d.body_id] =
                    IF @.present THEN [@ EXCEPT !.lat = d.weight]
                    ELSE Link(0, d.weight)]

\* readFile: one link of the file is parsed
read_decl(n, d) == link_weight_case(body_id_case(head_id_case(n, d), d), d)

\* the entries that are there in one map of router_list
links(n, t, r) == {x \in Ids : n.router_list[t][r][x].present}

\* _size = router_list[1].size() and _nodes = node_list.size()
net_size(n) == Cardinality(n.keys)
net_nodes(n) == {d \in Ids : n.node_list[d] # -1}

\* the end of readFile: the node numbers are sequential and start at 0
node_check(n) == \A d \in net_nodes(n) : \A e \in Ids : e < d => e \in net_nodes(n)

\* the arrays of _BuildNet and of route have _size elements and are indexed
\* by router number, _inject and _eject have _nodes elements: a number
\* outside them is an access outside the array
in_bounds(n) ==
  /\ \A r \in n.keys : r < net_size(n)
  /\ \A r \in n.keys : \A x \in links(n, ROUTER, r) : x \in n.keys
  /\ \A r \in n.keys : \A d \in links(n, NODE, r) : d \in net_nodes(n)

\* _BuildNet: the output port of a link: the links to nodes are numbered
\* first, then the links to routers, each in ascending order
outport(n, t, r, x) ==
  IF t = NODE THEN Cardinality({y \in links(n, NODE, r) : y < x})
  ELSE Cardinality(links(n, NODE, r)) + Cardinality({y \in links(n, ROUTER, r) : y < x})

\* _BuildNet: every link of every router gets its output port
assign_ports(n) ==
  [n EXCEPT !.router_list =
     [t \in {NODE, ROUTER} |-> [r \in Ids |-> [x \in Ids |->
        IF r \in n.keys /\ n.router_list[t][r][x].present
        THEN Link(outport(n, t, r, x), n.router_list[t][r][x].lat)
        ELSE n.router_list[t][r][x]]]]]

\* route: the start of the search from r_start
route_init(n, r) ==
  [n EXCEPT !.r_start = r,
            !.dist = [i \in Ids |-> IF i = r THEN 0 ELSE INT_MAX],
            !.prev = [i \in Ids |-> -1],
            !.rlist = {i \in Ids : i < net_size(n)}]

\* route, find min: the first router of rlist with the least distance below
\* INT_MAX, -1 when there is none
min_cand(n) ==
  LET cands == {i \in n.rlist : n.dist[i] < INT_MAX /\ \A j \in n.rlist : n.dist[i] <= n.dist[j]}
  IN IF cands = {} THEN -1 ELSE CHOOSE i \in cands : \A j \in cands : i <= j

\* route: one pass of the while loop: min_cand leaves rlist and its
\* neighbours are relaxed; erase(-1) removes nothing
route_iter(n) ==
  LET mc == min_cand(n)
  IN IF mc = -1 THEN n
     ELSE [n EXCEPT !.rlist = @ \ {mc},
                    !.dist = [i \in Ids |->
                       IF i \in links(n, ROUTER, mc) /\ n.dist[mc] + n.router_list[ROUTER][mc][i].lat < n.dist[i]
                       THEN n.dist[mc] + n.router_list[ROUTER][mc][i].lat ELSE n.dist[i]],
                    !.prev = [i \in Ids |->
                       IF i \in links(n, ROUTER, mc) /\ n.dist[mc] + n.router_list[ROUTER][mc][i].lat < n.dist[i]
                       THEN mc ELSE n.prev[i]]]

\* route, post process: the walk back along prev from router i to the
\* neighbour of r_start; ok is the assertion that every router passed has a
\* link back to its predecessor
RECURSIVE walk_back(_, _, _)
walk_back(n, neighbor, ok) ==
  IF n.prev[neighbor] = n.r_start THEN [neighbor |-> neighbor, ok |-> ok]
  ELSE walk_back(n, n.prev[neighbor], ok /\ n.prev[neighbor] \in links(n, ROUTER, neighbor))

\* route, post process of router i: the port for the nodes of router i
post_port(n, i) ==
  IF n.prev[i] = -1 THEN [port |-> -1, self |-> TRUE, ok |-> i = n.r_start]
  ELSE LET w == walk_back(n, i, TRUE)
       IN [port |-> n.router_list[ROUTER][n.r_start][w.neighbor].port, self |-> FALSE,
           ok |-> w.ok /\ w.neighbor \in links(n, ROUTER, n.r_start)]

\* route, post process: the routers in ascending order, each one's nodes
\* get the ejection port (the start router) or the port of the first hop
RECURSIVE post_process(_, _)
post_process(n, i) ==
  IF i >= net_size(n) \/ n.assert_failed THEN n
  ELSE LET p == post_port(n, i)
       IN IF ~p.ok THEN [n EXCEPT !.assert_failed = TRUE]
          ELSE post_process(
                 [n EXCEPT !.routing_table[n.r_start] = [d \in Ids |->
                    IF d \in links(n, NODE, i)
                    THEN (IF p.self THEN n.router_list[NODE][i][d].port ELSE p.port)
                    ELSE @[d]]],
                 i + 1)

\* Flit::FlitType
FlitTypes == {"READ_REQUEST", "READ_REPLY", "WRITE_REQUEST", "WRITE_REPLY", "ANY_TYPE"}

\* gNumVCs and the begin and end of the range of each packet type, as the
\* configuration declares them: disjoint ranges within [0, gNumVCs - 1]
VcConfigs ==
  { [gNumVCs |-> 4, gReadReqBeginVC |-> 0, gReadReqEndVC |-> 0, gWriteReqBeginVC |-> 1, gWriteReqEndVC |-> 1,
     gReadReplyBeginVC |-> 2, gReadReplyEndVC |-> 2, gWriteReplyBeginVC |-> 3, gWriteReplyEndVC |-> 3],
    [gNumVCs |-> 8, gReadReqBeginVC |-> 0, gReadReqEndVC |-> 1, gWriteReqBeginVC |-> 2, gWriteReqEndVC |-> 3,
     gReadReplyBeginVC |-> 4, gReadReplyEndVC |-> 5, gWriteReplyBeginVC |-> 6, gWriteReplyEndVC |-> 7],
    [gNumVCs |-> 6, gReadReqBeginVC |-> 2, gReadReqEndVC |-> 2, gWriteReqBeginVC |-> 0, gWriteReqEndVC |-> 1,
     gReadReplyBeginVC |-> 5, gReadReplyEndVC |-> 5, gWriteReplyBeginVC |-> 3, gWriteReplyEndVC |-> 4] }

\* min_anynet: the output port of router r for flit f (-1 when the flit is
\* injected), the assertion that the table has the destination
out_port(n, r, f, inject) == IF inject THEN -1 ELSE n.routing_table[r][f.dest]

\* a mistaken range of virtual channels: write requests get the range of the
\* read replies
vc_range_Swapped(g, type) ==
  IF type = "READ_REQUEST" THEN <<g.gReadReqBeginVC, g.gReadReqEndVC>>
  ELSE IF type = "WRITE_REQUEST" THEN <<g.gReadReplyBeginVC, g.gReadReplyEndVC>>
  ELSE IF type = "READ_REPLY" THEN <<g.gReadReplyBeginVC, g.gReadReplyEndVC>>
  ELSE IF type = "WRITE_REPLY" THEN <<g.gWriteReplyBeginVC, g.gWriteReplyEndVC>>
  ELSE <<0, g.gNumVCs - 1>>

\* min_anynet: the range of virtual channels of the type of the flit
vc_range(g, type) ==
  IF type = "READ_REQUEST" THEN <<g.gReadReqBeginVC, g.gReadReqEndVC>>
  ELSE IF type = "WRITE_REQUEST" THEN <<g.gWriteReqBeginVC, g.gWriteReqEndVC>>
  ELSE IF type = "READ_REPLY" THEN <<g.gReadReplyBeginVC, g.gReadReplyEndVC>>
  ELSE IF type = "WRITE_REPLY" THEN <<g.gWriteReplyBeginVC, g.gWriteReplyEndVC>>
  ELSE <<0, g.gNumVCs - 1>>

\* min_anynet: outputs->Clear(); outputs->AddRange(out_port, vcBegin, vcEnd)
min_anynet(n, r, f, inject) ==
  IF ~inject /\ n.routing_table[r][f.dest] = -1
  THEN [n EXCEPT !.assert_failed = TRUE]
  ELSE [n EXCEPT !.outputs =
          {[output_port |-> out_port(n, r, f, inject),
            vc_start |-> vc_range(n.vcs, f.type)[1],
            vc_end |-> vc_range(n.vcs, f.type)[2]]}]

\* the lines of the network files
RR(a, b) == Decl(ROUTER, a, ROUTER, b, FALSE, 1)
RRw(a, b, w) == Decl(ROUTER, a, ROUTER, b, TRUE, w)
RN(a, d) == Decl(ROUTER, a, NODE, d, FALSE, 1)
RNw(a, d, w) == Decl(ROUTER, a, NODE, d, TRUE, w)
NR(d, a) == Decl(NODE, d, ROUTER, a, FALSE, 1)
NRw(d, a, w) == Decl(NODE, d, ROUTER, a, TRUE, w)

\* the ways two routers are linked in the files: not at all, one line
\* without or with a latency, one line for each direction in either order
PairLines(a, b) ==
  { <<>>, <<RR(a, b)>>, <<RRw(a, b, 5)>>, <<RRw(a, b, 5), RRw(b, a, 3)>>, <<RRw(b, a, 3), RR(a, b)>> }

\* the ways the nodes are attached in the files
NodeLines ==
  { <<RN(0, 0), RN(1, 1), RN(2, 2)>>,
    <<NR(0, 0), NR(1, 1), NR(2, 2)>>,
    <<RN(0, 0), RNw(0, 1, 5), RNw(2, 2, 5)>>,
    <<RN(0, 0), RN(1, 1), NRw(2, 0, 5)>>,
    <<RN(0, 0), RN(1, 1), RN(2, 2), RN(1, 3)>>,
    <<RN(0, 0), RN(1, 1), RN(2, 2), NR(3, 1)>>,
    <<RN(0, 0), RN(1, 1), RN(2, 2), RN(3, 3), RR(3, 0), RRw(2, 3, 4)>> }

\* the network files
NetFiles ==
  { nl \o p01 \o p12 \o p02 : nl \in NodeLines, p01 \in PairLines(0, 1), p12 \in PairLines(1, 2), p02 \in PairLines(0, 2) }

\* the flits handed to the routing function
Flits == [dest : Ids, type : FlitTypes]

InitNet ==
  /\ DriverOff
  /\ rfu = NoRfu
  /\ token = NoToken
  /\ mf = NoFetch
  /\ mem = NoMem
  /\ net \in {NetInit(file, vcs) : file \in NetFiles, vcs \in VcConfigs}

\* readFile parses the next link of the file; a failed assertion ends the run
ReadFile ==
  /\ net.pc = "readFile"
  /\ net.file # <<>>
  /\ LET n == read_decl(net, Head(net.file))
     IN net' = [n EXCEPT !.file = Tail(net.file),
                         !.pc = IF n.assert_failed THEN "aborted" ELSE "readFile"]
  /\ UNCHANGED <<driver_vars, rfu, token, mf, mem>>

\* the end of readFile and _ComputeSize: the check of the node numbers
ComputeSize ==
  /\ net.pc = "readFile"
  /\ net.file = <<>>
  /\ net' = IF node_check(net) THEN [net EXCEPT !.pc = "BuildNet"]
            ELSE [net EXCEPT !.assert_failed = TRUE, !.pc = "aborted"]
  /\ UNCHANGED <<driver_vars, rfu, token, mf, mem>>

\* _BuildNet numbers the ports and calls buildRoutingTable, which starts
\* route(0); an index outside an array leaves the behaviour undefined
BuildNet ==
  /\ net.pc = "BuildNet"
  /\ net' = IF ~in_bounds(net) THEN [net EXCEPT !.pc = "undefined"]
            ELSE IF net_size(net) = 0 THEN [net EXCEPT !.pc = "done"]
            ELSE [route_init(assign_ports(net), 0) EXCEPT !.pc = "route"]
  /\ UNCHANGED <<driver_vars, rfu, token, mf, mem>>

\* route: one pass of the while loop
RouteLoop ==
  /\ net.pc = "route"
  /\ net.rlist # {}
  /\ net' = route_iter(net)
  /\ UNCHANGED <<driver_vars, rfu, token, mf, mem>>

\* route: the post process after the loop, then buildRoutingTable goes on
\* with the next router or is done
RouteEnd ==
  /\ net.pc = "route"
  /\ net.rlist = {}
  /\ LET n == post_process(net, 0)
     IN net' = IF n.assert_failed THEN [n EXCEPT !.pc = "aborted"]
               ELSE IF net.r_start + 1 < net_size(net) THEN route_init(n, net.r_start + 1)
               ELSE [n EXCEPT !.pc = "done"]
  /\ UNCHANGED <<driver_vars, rfu, token, mf, mem>>

\* what the output set handed to the routing function may hold from before
OldOutputs == {{}, {[output_port |-> 0, vc_start |-> 0, vc_end |-> 0], [output_port |-> 1, vc_start |-> 0, vc_end |-> 1]}}

\* a router asks the routing function for the outputs of a flit
MinAnynet ==
  /\ net.pc = "done"
  /\ \E r \in net.keys, f \in Flits, inject \in BOOLEAN, old \in OldOutputs :
       /\ f.dest \in net_nodes(net)
       /\ LET n == min_anynet([net EXCEPT !.outputs = old], r, f, inject)
          IN net' = [n EXCEPT !.pc = IF n.assert_failed THEN "aborted" ELSE "routed"]
  /\ UNCHANGED <<driver_vars, rfu, token, mf, mem>>

NextNet == ReadFile \/ ComputeSize \/ BuildNet \/ RouteLoop \/ RouteEnd \/ MinAnynet

SpecNet == InitNet /\ [][NextNet]_vars

\* buildRoutingTable has returned: the routing tables are in use
built(n) == n.pc \in {"done", "routed"}

\* the latency of the channel from router a to router b
lat(n, a, b) == n.router_list[ROUTER][a][b].lat

\* the least total latency of a path of at most k channels from router a to
\* router b, INT_MAX when there is none
RECURSIVE shortest(_, _, _, _)
shortest(n, k, a, b) ==
  IF k = 0 THEN (IF a = b THEN 0 ELSE INT_MAX)
  ELSE LET via == {lat(n, a, x) + shortest(n, k - 1, x, b) : x \in {y \in links(n, ROUTER, a) : shortest(n, k - 1, y, b) < INT_MAX}}
           all == via \cup {shortest(n, k - 1, a, b)}
       IN CHOOSE m \in all : \A o \in all : m <= o

\* the shortest-path distance between two routers of the built network
distance(n, a, b) == shortest(n, net_size(n), a, b)

\* the routers a flit for node d passes when every router from r on sends it
\* through the port of its routing table; the walk ends at the router of d,
\* at a router whose port leads to no router, or after more hops than routers
RECURSIVE follow(_, _, _, _)
follow(n, r, d, path) ==
  LET nxt == {x \in links(n, ROUTER, r) : n.router_list[ROUTER][r][x].port = n.routing_table[r][d]}
  IN IF r = n.node_list[d] \/ nxt = {} \/ Len(path) > net_size(n) THEN path
     ELSE follow(n, CHOOSE x \in nxt : TRUE, d, Append(path, CHOOSE x \in nxt : TRUE))

\* the sum of the latencies of the channels along a walk
RECURSIVE path_latency(_, _)
path_latency(n, path) ==
  IF Len(path) < 2 THEN 0 ELSE lat(n, path[1], path[2]) + path_latency(n, Tail(path))

\* the table entry of router r for node d is the port of a channel to a
\* router that starts a path of least latency to the router of d
FirstHopMinimal(n, r, d) ==
  \E x \in links(n, ROUTER, r) :
    /\ n.router_list[ROUTER][r][x].port = n.routing_table[r][d]
    /\ distance(n, x, n.node_list[d]) < INT_MAX
    /\ lat(n, r, x) + distance(n, x, n.node_list[d]) = distance(n, r, n.node_list[d])

\* following the table from r reaches the router of d, passes no router
\* twice and adds up to the shortest-path distance
FollowReaches(n, r, d) ==
  LET path == follow(n, r, d, <<r>>)
  IN /\ path[Len(path)] = n.node_list[d]
     /\ \A i, j \in DOMAIN path : path[i] = path[j] => i = j
     /\ path_latency(n, path) = distance(n, r, n.node_list[d])

\* C25: once the routing tables are built, for every router r and every node
\* d attached to another router the entry routing_table[r][d] is the port of
\* r toward the first router of a path of least total latency to the router
\* of d, and following the tables hop by hop reaches that router without
\* passing a router twice, over channels whose latencies add up to the
\* shortest-path distance
C25_RoutingCorrect ==
  built(net) =>
    \A r \in net.keys : \A d \in net_nodes(net) :
      net.node_list[d] # r => FirstHopMinimal(net, r, d) /\ FollowReaches(net, r, d)

\* the calls of the routing function a router can make once the tables are
\* built: the destination is a node, and a flit that is not injected has an
\* entry in the table of the router
Calls(n) ==
  {c \in [r : n.keys, f : Flits, inject : BOOLEAN] :
     c.f.dest \in net_nodes(n) /\ (c.inject \/ n.routing_table[c.r][c.f.dest] # -1)}

\* the output set after the call c on an output set that held old
Routed(n, c, old) == min_anynet([n EXCEPT !.outputs = old], c.r, c.f, c.inject).outputs

\* the range the configuration declares for a packet type
DeclaredRange(g, type) ==
  CASE type = "READ_REQUEST" -> [vc_start |-> g.gReadReqBeginVC, vc_end |-> g.gReadReqEndVC]
    [] type = "WRITE_REQUEST" -> [vc_start |-> g.gWriteReqBeginVC, vc_end |-> g.gWriteReqEndVC]
    [] type = "READ_REPLY" -> [vc_start |-> g.gReadReplyBeginVC, vc_end |-> g.gReadReplyEndVC]
    [] type = "WRITE_REPLY" -> [vc_start |-> g.gWriteReplyBeginVC, vc_end |-> g.gWriteReplyEndVC]
    [] OTHER -> [vc_start |-> 0, vc_end |-> g.gNumVCs - 1]

\* the call c leaves exactly one range: the port of the table (-1 for an
\* injected flit) with the declared range of the type of the flit
OneRange(n, c, old) ==
  Routed(n, c, old) =
    {[output_port |-> IF c.inject THEN -1 ELSE n.routing_table[c.r][c.f.dest],
      vc_start |-> DeclaredRange(n.vcs, c.f.type).vc_start,
      vc_end |-> DeclaredRange(n.vcs, c.f.type).vc_end]}

\* the ranges the flits of one type get from the routing function
RangesOf(n, type) == UNION {Routed(n, c, {}) : c \in {x \in Calls(n) : x.f.type = type}}

DuConfigs ==
  {[num_banks |-> 4, bank_warp_shift |-> 0, sub_core_model |-> TRUE, num_warp_scheds |-> 2, num_cu |-> 4, num_ports |-> 1],
   [num_banks |-> 4, bank_warp_shift |-> 0, sub_core_model |-> FALSE, num_warp_scheds |-> 2, num_cu |-> 4, num_ports |-> 1],
   [num_banks |-> 6, bank_warp_shift |-> 0, sub_core_model |-> TRUE, num_warp_scheds |-> 3, num_cu |-> 6, num_ports |-> 1],
   [num_banks |-> 3, bank_warp_shift |-> 0, sub_core_model |-> TRUE, num_warp_scheds |-> 1, num_cu |-> 3, num_ports |-> 1]}

\* the instruction that unit c is given: one of the scheduler of the unit
DuInst(cfg, c) ==
  [id |-> c + 1, wid |-> c, src |-> <<0, -1>>, dst |-> <<-1, -1>>, sched |-> cu_reg_id(cfg, c)]

InitDU ==
  /\ DriverOff
  /\ rfu \in {RfuInit(cfg) : cfg \in DuConfigs}
  /\ token = NoToken
  /\ mf = NoFetch
  /\ mem = NoMem
  /\ net = NoNet

\* a free unit is allocated an instruction through port 0; its operand is
\* still to be read
DuAllocate ==
  /\ \E c \in DOMAIN rfu.cu :
       /\ rfu.cu[c].free
       /\ rfu' = cu_allocate([rfu EXCEPT !.in_reg[0][DuInst(rfu.cfg, c).sched % Cardinality(Slots(rfu.cfg))] = DuInst(rfu.cfg, c),
                                         !.phases = <<>>], c, 0)
  /\ UNCHANGED <<driver_vars, token, mf, mem, net>>

\* the operand of a unit arrives from its bank
DuCollect ==
  /\ \E c \in DOMAIN rfu.cu : \E o \in rfu.cu[c].not_ready :
       rfu' = collect_operand([rfu EXCEPT !.phases = <<>>], c, o)
  /\ UNCHANGED <<driver_vars, token, mf, mem, net>>

\* the dispatch unit is asked for a ready unit and dispatches it
DuDispatch ==
  /\ rfu' = dispatch_ready_cu([rfu EXCEPT !.phases = <<>>])
  /\ UNCHANGED <<driver_vars, token, mf, mem, net>>

\* a functional unit takes the instruction of an output register slot; what
\* it executes is not followed here
DuIssue ==
  /\ \E sl \in DOMAIN rfu.out_reg[0] :
       /\ rfu.out_reg[0][sl] # NoInst
       /\ rfu' = [rfu EXCEPT !.out_reg[0][sl] = NoInst, !.phases = <<>>]
  /\ UNCHANGED <<driver_vars, token, mf, mem, net>>

NextDU == DuAllocate \/ DuCollect \/ DuDispatch \/ DuIssue

SpecDU == InitDU /\ [][NextDU]_vars

\* the increment of the claim: 1 without the sub-core model, with it what is
\* left of the group of last_cu
ClaimedInc(r) ==
  LET cusPerSched == r.cfg.num_cu \div r.cfg.num_warp_scheds
  IN IF r.cfg.sub_core_model THEN cusPerSched - (r.du_last_cu % cusPerSched) ELSE 1

\* the units in cyclic index order from (last_cu + inc) mod N
ScanOrder(r) ==
  LET start == (r.du_last_cu + ClaimedInc(r)) % r.cfg.num_cu
  IN [n \in 1..r.cfg.num_cu |-> IF start + n - 1 < r.cfg.num_cu THEN start + n - 1 ELSE start + n - 1 - r.cfg.num_cu]

\* the first ready unit of the scan order, -1 when no unit is ready
FirstReady(r) ==
  LET hits == {n \in 1..r.cfg.num_cu : cu_ready(r, ScanOrder(r)[n])}
  IN IF hits = {} THEN -1 ELSE ScanOrder(r)[CHOOSE n \in hits : \A k \in hits : n <= k]

\* C28: a call of find_ready looks at the collector units in cyclic index
\* order from (last_cu + inc) mod N, each unit once, with inc = 1 without the
\* sub-core model and inc = cusPerSched - (last_cu mod cusPerSched) with it;
\* it returns the first ready unit of that order and records it as last_cu;
\* when no unit is ready it returns none and last_cu stays as it was
C28_FindReadyScan ==
  [][StepTaken =>
       LET c == FirstReady(rfu)
       IN /\ \A k \in DOMAIN rfu.cu : Cardinality({n \in DOMAIN ScanOrder(rfu) : ScanOrder(rfu)[n] = k}) = 1
          /\ rfu'.phases = <<phase("dispatch_ready_cu", -1, c, {})>>
          /\ c = -1 => rfu'.du_last_cu = rfu.du_last_cu /\ rfu'.cu = rfu.cu /\ rfu'.out_reg = rfu.out_reg
          /\ c # -1 => /\ rfu'.du_last_cu = c
                       /\ rfu'.cu[c].free
                       /\ \A k \in DOMAIN rfu.cu \ {c} : rfu'.cu[k] = rfu.cu[k]
                       /\ \E sl \in DOMAIN rfu.out_reg[0] : rfu.out_reg[0][sl] = NoInst /\ rfu'.out_reg[0][sl] = rfu.cu[c].warp]_vars

\* with four units of two schedulers in the sub-core model unit 2 was
\* dispatched though unit 1 is ready: the scan began at unit 2
C28_Witness ==
  /\ rfu.cfg.sub_core_model
  /\ rfu.cfg.num_cu = 4
  /\ rfu.phases = <<phase("dispatch_ready_cu", -1, 2, {})>>
  /\ rfu.du_last_cu = 2
  /\ cu_ready(rfu, 1)

\* the scheduler group of a collector unit
group(r, c) == c \div (r.cfg.num_cu \div r.cfg.num_warp_scheds)

\* how many groups after the group of last_cu the group g is scanned: the
\* group that follows it first, its own group last
group_rank(r, g) == (g + r.cfg.num_warp_scheds - group(r, r.du_last_cu) - 1) % r.cfg.num_warp_scheds

\* C29: with the sub-core model and N a multiple of the number of schedulers
\* the scan starts at the first unit of the group after the group of the last
\* dispatched unit and takes that unit's own group last: the unit returned is
\* the lowest ready unit of the first group in that order that has one, so a
\* unit of the group that dispatched last is returned only when no unit of
\* another group is ready
C29_SubCoreGroupOrder ==
  [][(StepTaken /\ rfu.cfg.sub_core_model /\ rfu.cfg.num_cu % rfu.cfg.num_warp_scheds = 0) =>
       LET c == rfu'.phases[1].cu
           ready == {k \in DOMAIN rfu.cu : cu_ready(rfu, k)}
       IN /\ (c = -1) = (ready = {})
          /\ c # -1 =>
               /\ c \in ready
               /\ \A k \in ready : group_rank(rfu, group(rfu, c)) <= group_rank(rfu, group(rfu, k))
               /\ \A k \in ready : group(rfu, k) = group(rfu, c) => c <= k
               /\ group(rfu, c) = group(rfu, rfu.du_last_cu) =>
                    \A k \in ready : group(rfu, k) = group(rfu, rfu.du_last_cu)]_vars

\* with six units of three schedulers unit 2 was dispatched though units 0
\* and 1 are ready: their group dispatched last and is scanned last
C29_Witness ==
  /\ rfu.cfg.sub_core_model
  /\ rfu.cfg.num_cu = 6
  /\ rfu.phases = <<phase("dispatch_ready_cu", -1, 2, {})>>
  /\ cu_ready(rfu, 0)
  /\ cu_ready(rfu, 1)

\* the collector as allocate_reads finds it in a step: after dispatch_ready_cu
BeforeReads(r) == dispatch_ready_cu([r EXCEPT !.phases = <<>>])

\* the banks that one allocate_reads call grants: read-allocated after it
Granted(r1, r2) == {b \in DOMAIN r1.alloc : r2.alloc[b] = READ_ALLOC /\ r1.alloc[b] # READ_ALLOC}

\* the grants of the call that takes r1 to r2 are a matching of idle banks
\* and collector units, each granted op was the head of its bank's queue and
\* left it, and the not_ready masks lost the granted operands and nothing else
GrantsMatch(r1, r2) ==
  LET g == Granted(r1, r2) IN
    /\ \A b \in g : /\ r1.alloc[b] = NO_ALLOC
                    /\ r1.queue[b] # <<>>
                    /\ r2.queue[b] = Tail(r1.queue[b])
                    /\ Head(r1.queue[b]).operand \in r1.cu[Head(r1.queue[b]).cu].not_ready
    /\ \A b \in DOMAIN r1.alloc \ g : r2.queue[b] = r1.queue[b] /\ r2.alloc[b] = r1.alloc[b]
    /\ \A b1, b2 \in g : Head(r1.queue[b1]).cu = Head(r1.queue[b2]).cu => b1 = b2
    /\ \A c \in DOMAIN r1.cu :
         r2.cu[c] = [r1.cu[c] EXCEPT !.not_ready = @ \ {Head(r1.queue[b]).operand : b \in {x \in g : Head(r1.queue[x]).cu = c}}]

RECURSIVE BeforeAllocate(_, _)
BeforeAllocate(r, p) ==
  IF p = 0 THEN allocate_reads(BeforeReads(r))
  ELSE allocate_cu(BeforeAllocate(r, p - 1), p - 1)

\* the collector units an instruction may take: all units of the port's
\* collector set, in the sub-core model those of its scheduler
UnitsOf(r, inst) ==
  IF r.cfg.sub_core_model
  THEN {c \in DOMAIN r.cu : r.cu[c].reg_id = inst.sched}
  ELSE DOMAIN r.cu

\* the valid source ops of unit c that go to bank b, in operand order
RECURSIVE OpsToBank(_, _, _, _)
OpsToBank(r, c, b, o) ==
  IF o \notin Operands THEN <<>>
  ELSE (IF r.cu[c].src_op[o].valid /\ r.cu[c].src_op[o].bank = b
        THEN <<r.cu[c].src_op[o]>> ELSE <<>>) \o OpsToBank(r, c, b, o + 1)

\* the call that takes r1 to r2 left everything but the log alone
NothingMoved(r1, r2) == r2 = [r1 EXCEPT !.phases = r2.phases]

\* the call that takes r1 to r2 moved the oldest instruction of the input
\* register of port p, and nothing else, into the free unit c
MovedInto(r1, r2, p, c) ==
  LET sl == get_ready(r1.in_reg[p])
      inst == r1.in_reg[p][sl]
  IN /\ r1.cu[c].free
     /\ ~r2.cu[c].free
     /\ r2.cu[c].warp = inst
     /\ r2.cu[c].out = p
     /\ r2.cu[c].not_ready = {o \in Operands : r2.cu[c].src_op[o].valid}
     /\ \A o \in Operands :
          r2.cu[c].src_op[o].valid =>
            /\ r2.cu[c].src_op[o].reg = inst.src[o + 1]
            /\ r2.cu[c].src_op[o].cu = c
            /\ r2.cu[c].src_op[o].operand = o
     /\ {r2.cu[c].src_op[o].reg : o \in r2.cu[c].not_ready}
          = {inst.src[o + 1] : o \in Operands} \ {-1}
     /\ \A d \in DOMAIN r1.cu \ {c} : r2.cu[d] = r1.cu[d]
     /\ \A b \in DOMAIN r1.queue :
          r2.queue[b] = r1.queue[b] \o OpsToBank(r2, c, b, 0)
     /\ r2.in_reg = [r1.in_reg EXCEPT ![p][sl] = NoInst]
     /\ r2.out_reg = r1.out_reg
     /\ r2.alloc = r1.alloc
     /\ ~r2.assert_failed

\* allocate_cu(p), taking r1 to r2, with the units in U counted as the ones
\* the instruction may take
AllocateFrame(r1, r2, p, U) ==
  IF has_ready(r1.in_reg[p]) /\ \E c \in U : r1.cu[c].free
  THEN \E c \in U : MovedInto(r1, r2, p, c)
  ELSE NothingMoved(r1, r2)

\* C31 as stated: any free collector unit of the port's collector set takes
\* the instruction
C31_AllocateAnyFree ==
  rfu.initialized =>
    \A p \in DOMAIN rfu.in_reg :
      AllocateFrame(BeforeAllocate(rfu, p), allocate_cu(BeforeAllocate(rfu, p), p),
                    p, DOMAIN rfu.cu)

\* C31 amended: allocate_cu(port) moves at most one warp instruction: if the
\* input register has a ready instruction and a collector unit that the
\* instruction may take is free (in the sub-core model: a unit of the
\* instruction's scheduler), the instruction is copied into such a unit, the
\* unit becomes non-free with one not_ready bit per valid source op, each
\* source op is appended to the read queue of its bank and the input slot is
\* cleared; otherwise the input register, all units and all bank queues are
\* unchanged, and the instruction is still there for the next cycle; a step
\* leaves the collector as its allocate_cu calls left it but for the bank
\* allocations that process_banks resets
C31_AllocateFrame ==
  /\ [](rfu.initialized =>
          \A p \in DOMAIN rfu.in_reg :
            LET b == BeforeAllocate(rfu, p) IN
              AllocateFrame(b, allocate_cu(b, p), p,
                            IF has_ready(b.in_reg[p])
                            THEN UnitsOf(b, b.in_reg[p][get_ready(b.in_reg[p])])
                            ELSE {}))
  /\ [][StepTaken =>
          LET a == BeforeAllocate(rfu, rfu.cfg.num_ports) IN
            /\ rfu'.cu = a.cu /\ rfu'.queue = a.queue
            /\ rfu'.in_reg = a.in_reg /\ rfu'.out_reg = a.out_reg]_vars

\* C31 witness: in the sub-core model the last step could not allocate the
\* instruction of scheduler 0 that waits in the input register, unit 0 being
\* busy, while unit 1 of scheduler 1 is free
C31_Witness ==
  /\ rfu.phases # <<>>
  /\ rfu.cfg.sub_core_model
  /\ rfu.phases[3].phase = "allocate_cu" /\ rfu.phases[3].cu = -1
  /\ rfu.in_reg[0][0] # NoInst
  /\ ~rfu.cu[0].free
  /\ rfu.cu[1].free

(***************************************************************************)
(* dispatch_ready_cu: from the collector unit to the output register       *)
(***************************************************************************)
\* the collector units that the call taking r1 to r2 made free
Freed(r1, r2) == {c \in DOMAIN r1.cu : ~r1.cu[c].free /\ r2.cu[c].free}

\* the slots of the output register of port p that unit c may take
OutSlots(r, c, p) ==
  IF r.cfg.sub_core_model THEN {r.cu[c].reg_id} ELSE DOMAIN r.out_reg[p]

\* unit c holds an instruction with every operand read, and a slot of its
\* output register is empty
Dispatchable(r, c) ==
  /\ ~r.cu[c].free
  /\ r.cu[c].not_ready = {}
  /\ \E sl \in OutSlots(r, c, r.cu[c].out) : r.out_reg[r.cu[c].out][sl] = NoInst

\* dispatch_ready_cu, taking r1 to r2: at most one unit is dispatched, a
\* dispatchable one, and there is one whenever some unit is dispatchable; its
\* instruction fills an empty slot of its output register and the unit is
\* as good as new; nothing else moves
DispatchFrame(r1, r2) ==
  /\ Cardinality(Freed(r1, r2)) <= 1
  /\ (\E c \in DOMAIN r1.cu : Dispatchable(r1, c)) => Freed(r1, r2) # {}
  /\ \A c \in Freed(r1, r2) :
       /\ Dispatchable(r1, c)
       /\ r2.cu[c] = FreeCu(r1.cfg, c)
       /\ \E sl \in OutSlots(r1, c, r1.cu[c].out) :
            /\ r1.out_reg[r1.cu[c].out][sl] = NoInst
            /\ r2.out_reg = [r1.out_reg EXCEPT ![r1.cu[c].out][sl] = r1.cu[c].warp]
  /\ \A c \in DOMAIN r1.cu \ Freed(r1, r2) : r2.cu[c] = r1.cu[c]
  /\ Freed(r1, r2) = {} => r2.out_reg = r1.out_reg
  /\ r2.in_reg = r1.in_reg /\ r2.queue = r1.queue /\ r2.alloc = r1.alloc
  /\ r2.exec = r1.exec /\ ~r2.assert_failed

\* the number of places that hold instruction id: input register slots,
\* collector units, output register slots
InRegs(r, id) == {<<p, sl>> \in (DOMAIN r.in_reg) \X Slots(r.cfg) : r.in_reg[p][sl].id = id}
InUnits(r, id) == {c \in DOMAIN r.cu : r.cu[c].warp.id = id}
OutRegs(r, id) == {<<p, sl>> \in (DOMAIN r.out_reg) \X Slots(r.cfg) : r.out_reg[p][sl].id = id}
Copies(r, id) ==
  Cardinality(InRegs(r, id)) + Cardinality(InUnits(r, id)) + Cardinality(OutRegs(r, id))

\* C32: dispatch_ready_cu dispatches a collector unit only when all its
\* not_ready bits are clear and its output register has a free slot; the
\* dispatch moves the unit's instruction into the output register and frees
\* the unit; a ready unit whose output register is occupied keeps its
\* instruction for the next cycle; every issued instruction is in at most one
\* place, goes from the input register to a unit and from the unit to the
\* output register of the same port, and leaves the collector only from the
\* output register: never lost, never duplicated
C32_DispatchOnce ==
  /\ [](rfu.initialized =>
          /\ DispatchFrame([rfu EXCEPT !.phases = <<>>], BeforeReads(rfu))
          /\ \A id \in 1..rfu.issued : Copies(rfu, id) <= 1)
  /\ [][\A id \in 1..rfu.issued :
          /\ InRegs(rfu, id) # {} =>
               \/ InRegs(rfu', id) = InRegs(rfu, id)
               \/ \E c \in InUnits(rfu', id) : \E x \in InRegs(rfu, id) : rfu'.cu[c].out = x[1]
          /\ InUnits(rfu, id) # {} =>
               \/ InUnits(rfu', id) = InUnits(rfu, id)
               \/ /\ StepTaken
                  /\ \A c \in InUnits(rfu, id) : Dispatchable(rfu, c)
                  /\ \E c \in InUnits(rfu, id) : \E x \in OutRegs(rfu', id) : x[1] = rfu.cu[c].out
          /\ OutRegs(rfu, id) # {} =>
               \/ OutRegs(rfu', id) = OutRegs(rfu, id)
               \/ Copies(rfu', id) = 0 /\ \E i \in rfu'.exec : i.id = id
          /\ Copies(rfu, id) = 0 => Copies(rfu', id) = 0]_vars

\* C32 witness: the last step dispatched nothing though a unit has all its
\* operands, because the output register of its port still holds the
\* instruction dispatched before
C32_Witness ==
  /\ rfu.phases # <<>>
  /\ rfu.phases[1].cu = -1
  /\ \E c \in DOMAIN rfu.cu :
       /\ ~rfu.cu[c].free
       /\ rfu.cu[c].not_ready = {}
       /\ ~Dispatchable(rfu, c)
       /\ \A sl \in OutSlots(rfu, c, rfu.cu[c].out) :
            /\ rfu.out_reg[rfu.cu[c].out][sl] # NoInst
            /\ rfu.out_reg[rfu.cu[c].out][sl].id < rfu.cu[c].warp.id

(***************************************************************************)
(* The statuses along the life of a read that misses in the L1 and the L2  *)
(***************************************************************************)
\* the ordinal of a status in enum mem_fetch_status
Ordinal(st) == CHOOSE i \in DOMAIN mem_fetch_status : mem_fetch_status[i] = st

\* the statuses of a read on its way to DRAM, and from DRAM back to its
\* deletion, as the memory system of the model has them
ToDram ==
  <<"MEM_FETCH_INITIALIZED", "IN_L1D_MISS_QUEUE", "IN_ICNT_TO_MEM",
    "IN_PARTITION_ICNT_TO_L2_QUEUE", "IN_PARTITION_DRAM">>
FromDram ==
  <<"IN_PARTITION_DRAM", "IN_PARTITION_DRAM_TO_L2_QUEUE",
    "IN_PARTITION_L2_FILL_QUEUE", "IN_ICNT_TO_SHADER",
    "IN_SHADER_LDST_RESPONSE_FIFO", "IN_SHADER_FETCHED", "MEM_FETCH_DELETED">>

\* the status of the fetch u, "" before its birth
StatusOf(ms, u) == IF u \in DOMAIN ms.fetch THEN ms.fetch[u].status ELSE ""

\* the fetch u is a read
IsRead(ms, u) == u \in DOMAIN ms.fetch /\ ~ms.fetch[u].is_write

\* a transition changes the status of the read u only along the life: a
\* fetch is born MEM_FETCH_INITIALIZED, a status on the way to DRAM is
\* entered from the one before it, and DRAM is entered on a miss in the L2;
\* a status on the way back is left for the one after it; the ordinal never
\* decreases
LifeStep(u) ==
  LET s == StatusOf(mem, u)
      t == StatusOf(mem', u)
  IN /\ (s = "" /\ t # "") => t = "MEM_FETCH_INITIALIZED"
     /\ (s # "" /\ IsRead(mem, u)) =>
          /\ Ordinal(t) >= Ordinal(s)
          /\ \A i \in 2..Len(ToDram) : (t = ToDram[i] /\ s # t) => s = ToDram[i - 1]
          /\ (t = "IN_PARTITION_DRAM" /\ s # t) => line_of(mem.fetch[u]) \notin mem.l2
          /\ \A i \in 1..(Len(FromDram) - 1) : (s = FromDram[i] /\ s # t) => t = FromDram[i + 1]

\* the read u, once in DRAM, has from then on a status of the way back and
\* is a reply in all of them but IN_PARTITION_DRAM itself
ReplyFromDram(u) ==
  [](StatusOf(mem, u) = "IN_PARTITION_DRAM" /\ IsRead(mem, u) =>
       [](/\ \E i \in DOMAIN FromDram : StatusOf(mem, u) = FromDram[i]
          /\ StatusOf(mem, u) # "IN_PARTITION_DRAM" => is_reply(mem.fetch[u])))

\* C33: a data read that misses in the L1 and the L2 is born
\* MEM_FETCH_INITIALIZED and takes the statuses IN_L1D_MISS_QUEUE,
\* IN_ICNT_TO_MEM, IN_PARTITION_DRAM, IN_PARTITION_DRAM_TO_L2_QUEUE,
\* IN_ICNT_TO_SHADER, IN_SHADER_LDST_RESPONSE_FIFO, IN_SHADER_FETCHED and
\* MEM_FETCH_DELETED in this order, its status ordinal never decreases, it is
\* a request in every status up to IN_PARTITION_DRAM and a reply in every
\* status after it, and with every component stepped every cycle it takes
\* each of them
C33_StatusOrder ==
  /\ [][\A u \in 1..MaxFetches : LifeStep(u)]_vars
  /\ [](\A u \in DOMAIN mem.fetch :
          (IsRead(mem, u) /\ Ordinal(mem.fetch[u].status) <= Ordinal("IN_PARTITION_DRAM"))
            => mem.fetch[u].type = READ_REQUEST)
  /\ [](\A i \in stage("IN_PARTITION_DRAM_TO_L2_QUEUE")..Len(Stages) :
          \A k \in DOMAIN mem.q[i] : is_reply(mem.fetch[mem.q[i][k]]))
  /\ \A u \in 1..MaxFetches :
       /\ ReplyFromDram(u)
       /\ \A i \in 1..(Len(FromDram) - 1) :
            (StatusOf(mem, u) = FromDram[i]) ~> (StatusOf(mem, u) = FromDram[i + 1])

\* C33 witness: the first load of line 128, which no L2 holds at the start,
\* is deleted as a read reply, and a store went through as well
C33_Witness ==
  \E u \in DOMAIN mem.fetch :
    /\ IsRead(mem, u)
    /\ mem.fetch[u].addr = 128
    /\ \A v \in 1..(u - 1) : mem.fetch[v].addr # 128
    /\ mem.fetch[u].status = "MEM_FETCH_DELETED"
    /\ mem.fetch[u].type = READ_REPLY
    /\ \E v \in DOMAIN mem.fetch : mem.fetch[v].is_write

(***************************************************************************)
(* The latencies of the links of a network file                            *)
(***************************************************************************)
\* the latency a line declares for its link: the weight, 1 without one
declared_latency(d) == IF d.has_weight THEN d.weight ELSE 1

\* the entries of router_list but those in the set keep of <<type, router,
\* other end>> are what they were
OthersKept(n1, n2, keep) ==
  \A t \in {NODE, ROUTER} : \A r \in Ids : \A x \in Ids :
    <<t, r, x>> \notin keep => n2.router_list[t][r][x] = n1.router_list[t][r][x]

\* readFile, taking n1 to n2, has read the line "router a router b [w]": the
\* channel a->b has the declared latency, the channel b->a is what it was or
\* is made with latency 1, no other link is touched
RouterLinkRead(n1, n2, d) ==
  LET a == d.head_id
      b == d.body_id
  IN /\ n2.router_list[ROUTER][a][b].present
     /\ n2.router_list[ROUTER][a][b].lat = declared_latency(d)
     /\ IF n1.router_list[ROUTER][b][a].present
        THEN n2.router_list[ROUTER][b][a] = n1.router_list[ROUTER][b][a]
        ELSE n2.router_list[ROUTER][b][a].present /\ n2.router_list[ROUTER][b][a].lat = 1
     /\ OthersKept(n1, n2, {<<ROUTER, a, b>>, <<ROUTER, b, a>>})

\* readFile, taking n1 to n2, has read a line that attaches node x to router
\* r: the link has the declared latency, which _BuildNet gives to the
\* injection and the ejection channel of the node; no other link is touched
NodeLinkRead(n1, n2, d) ==
  LET r == IF d.head_type = ROUTER THEN d.head_id ELSE d.body_id
      x == IF d.head_type = ROUTER THEN d.body_id ELSE d.head_id
  IN /\ n2.router_list[NODE][r][x].present
     /\ n2.router_list[NODE][r][x].lat = declared_latency(d)
     /\ OthersKept(n1, n2, {<<NODE, r, x>>})

\* C34: link latencies are per direction for router-to-router links:
\* 'router A router B w' gives channel A->B latency w and creates B->A with
\* latency 1 unless B->A is there already, whose latency it never changes; a
\* link declared without a weight has latency 1; the declared latency of a
\* router-to-node link is the latency of that link, for injection and
\* ejection; _BuildNet changes no latency
C34_LinkLatencies ==
  [][/\ (net.pc = "readFile" /\ net.file # <<>> /\ ~net'.assert_failed) =>
          IF Head(net.file).head_type = ROUTER /\ Head(net.file).body_type = ROUTER
          THEN RouterLinkRead(net, net', Head(net.file))
          ELSE NodeLinkRead(net, net', Head(net.file))
     /\ net.pc = "BuildNet" =>
          \A t \in {NODE, ROUTER} : \A r \in Ids : \A x \in Ids :
            /\ net'.router_list[t][r][x].lat = net.router_list[t][r][x].lat
            /\ net'.router_list[t][r][x].present = net.router_list[t][r][x].present]_vars

(***************************************************************************)
(* The assertion of cleanup_finished_kernel                                *)
(***************************************************************************)
\* the condition of the outer if of cleanup_finished_kernel(uid)
CleanupEntered(uid) == uid # 0 \/ limit_reached \/ ~active

\* C35: assert(k) in cleanup_finished_kernel holds in every reachable state
\* of the driver: whenever the cleanup branch is entered the window holds
\* at least one kernel, and run_to_completion never aborts on the assertion
C35_AssertHolds ==
  /\ pc # "assert_failed"
  /\ (pc = "cleanup" /\ CleanupEntered(finished_kernel_uid)) => kernels_info # <<>>

(***************************************************************************)
(* busy_streams and the launched kernels of the window                     *)
(***************************************************************************)
\* the stream ids of the kernels of the window win that were launched
LaunchedStreams(win) == {win[i].stream : i \in {j \in DOMAIN win : win[j].was_launched}}

\* busy is duplicate free and holds exactly the streams of the launched
\* kernels of win
BusyExact(win, busy) ==
  /\ \A l, n \in DOMAIN busy : busy[l] = busy[n] => l = n
  /\ Range(busy) = LaunchedStreams(win)

\* C36: between outer iterations of run_to_completion busy_streams has no
\* duplicate and holds a stream id exactly when a kernel of the window with
\* that stream id has was_launched = true; retirement never frees the stream
\* of a launched kernel that stays in the window
C36_BusyStreamsExact ==
  /\ [](pc = "loop" => BusyExact(kernels_info, busy_streams))
  /\ [][pc = "cleanup" =>
          \A i \in DOMAIN kernels_info' :
            kernels_info'[i].was_launched => kernels_info'[i].stream \in Range(busy_streams')]_vars

(***************************************************************************)
(* Every kernel of the window is launched once                             *)
(***************************************************************************)
\* the kernels that a step takes out of the window
Removed == {kernels_info[i] : i \in {j \in DOMAIN kernels_info : kernels_info[j].uid \notin Uids(kernels_info')}}

\* C37: unless the cap is hit, every kernel that enters the window is
\* launched exactly once before it is removed: no kernel is launched twice,
\* only cleanup_finished_kernel removes a kernel, and it removes none whose
\* was_launched flag is still false
C37_LaunchedOnce ==
  /\ [](\A l, n \in DOMAIN launched : launched[l] = launched[n] => l = n)
  /\ [](\A i \in DOMAIN kernels_info :
          kernels_info[i].was_launched <=> kernels_info[i].uid \in Range(launched))
  /\ [][~limit_reached =>
          /\ Removed # {} => pc = "cleanup"
          /\ \A k \in Removed : k.was_launched /\ k.uid \in Range(launched)]_vars

(***************************************************************************)
(* The loop of route                                                       *)
(***************************************************************************)
\* C38: route(r_start) terminates for every topology that readFile accepts
\* and every start router, reachable or not all routers: each pass of the
\* while loop removes one router from the candidate set rlist
C38_RouteTerminates ==
  (net.pc = "route" /\ net.rlist # {}) =>
    /\ min_cand(net) \in net.rlist
    /\ Cardinality(route_iter(net).rlist) = Cardinality(net.rlist) - 1

(***************************************************************************)
(* The routing tables are complete                                         *)
(***************************************************************************)
\* C39: after buildRoutingTable routing_table[r] has an entry for every node
\* d, for every router r, so that the lookup assertion of min_anynet holds
\* for every flit to an existing node that is not injected; for a node
\* attached to r itself the entry is its ejection port on r; and the
\* assertions inside route hold
C39_TableComplete ==
  /\ [](built(net) =>
          \A r \in net.keys : \A d \in net_nodes(net) :
            /\ net.routing_table[r][d] # -1
            /\ net.node_list[d] = r =>
                 net.routing_table[r][d] = net.router_list[NODE][r][d].port)
  /\ [][net.pc \in {"route", "done"} => ~net'.assert_failed]_vars

(***************************************************************************)
(* How long a ready collector unit waits for its dispatch                  *)
(***************************************************************************)
\* the dispatch units looked at: four collector units, two schedulers, with
\* and without the sub-core model
StarveConfigs == {cfg \in DuConfigs : cfg.num_cu = cfg.num_banks /\ cfg.num_warp_scheds + cfg.num_warp_scheds = cfg.num_cu}

\* the collector of configuration cfg with one unit watched: passed counts
\* the calls of find_ready in a row that found the watched unit ready and
\* returned another unit
WatchInit(cfg, w) ==
  LET r == RfuInit(cfg) IN
    [initialized |-> r.initialized, cfg |-> r.cfg, cu |-> r.cu, queue |-> r.queue,
     alloc |-> r.alloc, arb_last_cu |-> r.arb_last_cu, du_last_cu |-> r.du_last_cu,
     in_reg |-> r.in_reg, out_reg |-> r.out_reg, exec |-> r.exec, issued |-> r.issued,
     assert_failed |-> r.assert_failed, phases |-> r.phases,
     watched |-> w, passed |-> 0]

InitStarve ==
  /\ DriverOff
  /\ rfu \in {WatchInit(cfg, w) : cfg \in StarveConfigs, w \in {0, 1, 2, 3}}
  /\ token = NoToken
  /\ mf = NoFetch
  /\ mem = NoMem
  /\ net = NoNet

\* the count after the call of find_ready that takes r1 to r2: a call that
\* returns no unit is not counted, the count starts again when the watched
\* unit is returned or was not ready; it is not followed beyond the number
\* of units
passed_after(r1, r2) ==
  IF Freed(r1, r2) = {} THEN r1.passed
  ELSE IF r1.watched \in Freed(r1, r2) \/ ~Dispatchable(r1, r1.watched) THEN 0
  ELSE IF r1.passed < r1.cfg.num_cu THEN r1.passed + 1 ELSE r1.passed

\* the dispatch unit is asked for a ready unit and dispatches it; the calls
\* that pass the watched unit over are counted
WatchedDispatch ==
  /\ LET r2 == dispatch_ready_cu([rfu EXCEPT !.phases = <<>>])
     IN rfu' = [r2 EXCEPT !.passed = passed_after(rfu, r2)]
  /\ UNCHANGED <<driver_vars, token, mf, mem, net>>

NextStarve == DuAllocate \/ DuCollect \/ WatchedDispatch \/ DuIssue

SpecStarve == InitStarve /\ [][NextStarve]_vars

\* the watched unit is the first unit of the group of its scheduler
FirstOfGroup(r) == r.watched % (r.cfg.num_cu \div r.cfg.num_warp_scheds) = 0

\* C40 as stated: a unit that is ready at every call is returned by
\* find_ready within N calls that return a unit, N the number of collector
\* units, with the sub-core model on or off
C40_StarvationFree == rfu.passed <= rfu.cfg.num_cu - 1

\* C40 amended: without the sub-core model a unit that is ready at every call
\* is returned within N calls that return a unit; with the sub-core model the
\* first unit of the group of a scheduler is returned within as many such
\* calls as there are schedulers (a later unit of a group waits for as long
\* as an earlier unit of its group is ready at every visit of the group)
C40_DispatchBound ==
  /\ ~rfu.cfg.sub_core_model => rfu.passed <= rfu.cfg.num_cu - 1
  /\ (rfu.cfg.sub_core_model /\ FirstOfGroup(rfu)) => rfu.passed <= rfu.cfg.num_warp_scheds - 1

\* C40 witness: without the sub-core model the watched unit, ready at each of
\* them, was passed over by N - 1 calls in a row and is ready for the next
C40_Witness ==
  /\ ~rfu.cfg.sub_core_model
  /\ rfu.passed = rfu.cfg.num_cu - 1
  /\ Dispatchable(rfu, rfu.watched)

====
